---- MODULE Spec2Model ----
(***************************************************************************)
(* wotrlay: the admission core of a Web-of-Trust Nostr relay.              *)
(*                                                                         *)
(*   rate.go (src/unnamed/part_000)  token-bucket Limiter                  *)
(*   rank.go                         RankCache, single-flight GetRank      *)
(*   main.go (src/unnamed/part_001)  handleEvent, lookupRank,              *)
(*                                   calculateDailyRate                    *)
(*                                                                         *)
(* Units.  Time is counted in hours (time.Hour = 1).  Scores are counted   *)
(* in tenths (ScoreScale = 10 is the score 1.0).  Tokens are counted in    *)
(* 1/TokenUnit of a token, TokenUnit = 480 = 24 * 20, so that every        *)
(* capacity dailyRate/24 and every hourly refill dailyRate/24 the model    *)
(* uses is a whole number; the float64 arithmetic of the code is modelled  *)
(* as exact arithmetic on these numbers.                                   *)
(***************************************************************************)
EXTENDS Integers, Sequences, FiniteSets, TLC

VARIABLES
    now,          \* the wall clock, time.Now(), in hours
    cfg,          \* Config: MidThreshold, HighThreshold, URLPolicyEnabled, RankQueueIPDailyLimit
    buckets,      \* Limiter.buckets: map id -> Bucket
    cleanerNext,  \* the next tick of the cleaner's ticker
    ranks,        \* RankCache.ranks: map pubkey -> TimeRank
    lastClean,    \* RankCache.lastClean
    refresh,      \* RankCache.refresh: the buffered channel of pubkeys
    last,         \* what the most recent handleEvent call did and returned
    calls,        \* history: per limiter id, the parameters passed and the times of granted consumes
    pc,           \* GetRank callers: position of each caller
    flight,       \* singleflight.Group: key -> the caller leading the call in flight
    flightCalls,  \* singleflight calls, by leading caller: running, or how fn returned
    got,          \* GetRank callers: what each caller returned
    roundTrips,   \* history: oracle round-trips issued per key
    handled       \* history: the number of handleEvent calls so far

flightVars == <<pc, flight, flightCalls, got, roundTrips>>
vars == <<now, cfg, buckets, cleanerNext, ranks, lastClean, refresh, last,
          calls, handled, flightVars>>

\* ------------------------------------------------------------------ units

Min(a, b) == IF a < b THEN a ELSE b
Max(a, b) == IF a > b THEN a ELSE b

\* one token, the cost of one event (Limiter.Allow passes cost 1)
TokenUnit == 480
\* the score 1.0
ScoreScale == 10

\* ------------------------------------------------------------ constants

TimeToLive == 1
CleanupInterval == 24
StaleThreshold == 24
MaxRefreshInterval == 168
timestampSanityWindow == 24
backfillAgeThreshold == 24

Pubkeys == {"a", "b"}
IPGroups == {"g1"}
rankQueueKeyPrefix == "rank-queue:"
RankQueueKey(g) == rankQueueKeyPrefix \o g
BucketIds == Pubkeys \cup {RankQueueKey(g) : g \in IPGroups}

\* --------------------------------------------------------------- bounds

\* the limiter specification stops the clock here
MaxTime == 25
\* granted consumes recorded per id
MaxGrants == 3

\* ------------------------------------------------------------- Limiter

EmptyMap == [k \in {} |-> 0]
Put(m, k, v) == [x \in DOMAIN m \cup {k} |-> IF x = k THEN v ELSE m[x]]
Restrict(m, S) == [x \in S |-> m[x]]

\* Bucket.refillLocked: tokens grow by elapsed * refillRate and are clamped
\* to capacity, only when elapsed > 0
refillLocked(b, t) ==
    LET elapsed == t - b.lastActive
        grown == b.tokens + elapsed * b.refillRate
    IN  IF elapsed > 0
        THEN [b EXCEPT !.tokens = IF grown > b.capacity THEN b.capacity ELSE grown,
                       !.lastActive = t]
        ELSE b

\* Limiter.getOrCreateBucket: the map after the call
getOrCreateBucket(bs, id, capacity, refillRate, t) ==
    IF id \in DOMAIN bs
    THEN bs
    ELSE Put(bs, id, [tokens |-> capacity, capacity |-> capacity,
                      refillRate |-> refillRate, lastActive |-> t])

\* Limiter.Consume: the bucket of id after the parameters are overwritten
\* and the refill is done, before the test against cost
Refilled(bs, id, capacity, refillRate, t) ==
    LET b == getOrCreateBucket(bs, id, capacity, refillRate, t)[id]
    IN  refillLocked([b EXCEPT !.capacity = capacity, !.refillRate = refillRate], t)

ConsumeOk(bs, id, cost, capacity, refillRate, t) ==
    ~(Refilled(bs, id, capacity, refillRate, t).tokens < cost)

\* a Consume that, when it refuses, puts back the bucket as it was before
\* the refill
ConsumeUndoesRefillOnRefusal(bs, id, cost, capacity, refillRate, t) ==
    LET b == Refilled(bs, id, capacity, refillRate, t)
        old == getOrCreateBucket(bs, id, capacity, refillRate, t)[id]
    IN  IF b.tokens < cost
        THEN Put(bs, id, [old EXCEPT !.capacity = capacity, !.refillRate = refillRate])
        ELSE Put(bs, id, [b EXCEPT !.tokens = b.tokens - cost])

\* Limiter.Consume: the map after the call
Consume(bs, id, cost, capacity, refillRate, t) ==
    LET b == Refilled(bs, id, capacity, refillRate, t)
    IN  IF b.tokens < cost
        THEN Put(bs, id, b)
        ELSE Put(bs, id, [b EXCEPT !.tokens = b.tokens - cost])

\* Limiter.GetTokens: the value returned, and the map after the call
GetTokensValue(bs, id, t) ==
    IF id \notin DOMAIN bs THEN 0 ELSE refillLocked(bs[id], t).tokens

GetTokens(bs, id, t) ==
    IF id \notin DOMAIN bs THEN bs ELSE Put(bs, id, refillLocked(bs[id], t))

\* Limiter.Clean: delete every bucket with age > TimeToLive
Clean(bs, t) ==
    Restrict(bs, {id \in DOMAIN bs : ~(t - bs[id].lastActive > TimeToLive)})

\* ---------------------------------------------------- daily-rate curve

\* Config.HighThreshold == nil
Nil == -1
secondsPerDay == 86400
SecondsPerHour == 3600

\* the configurations the model runs under (loadConfig's validation holds)
Configs ==
    [MidThreshold : {5}, HighThreshold : {Nil, 9},
     URLPolicyEnabled : BOOLEAN, RankQueueIPDailyLimit : {1}]

DefaultCfg ==
    [MidThreshold |-> 5, HighThreshold |-> Nil,
     URLPolicyEnabled |-> FALSE, RankQueueIPDailyLimit |-> 1]

\* a tier B that starts at 0 events per day instead of 1
calculateDailyRateFromZero(r, c) ==
    CASE r <= 0 -> [num |-> 1, den |-> 1]
      [] r > 0 /\ r < c.MidThreshold ->
            [num |-> r * 99, den |-> c.MidThreshold]
      [] r > 0 /\ ~(r < c.MidThreshold) /\ c.HighThreshold # Nil /\ r < c.HighThreshold ->
            [num |-> 100 * (c.HighThreshold - c.MidThreshold) + (r - c.MidThreshold) * 4900,
             den |-> c.HighThreshold - c.MidThreshold]
      [] OTHER -> [num |-> 10000, den |-> 1]

\* a tier C that starts at 1000 events per day instead of 100
calculateDailyRateTierCFrom1000(r, c) ==
    CASE r <= 0 -> [num |-> 1, den |-> 1]
      [] r > 0 /\ r < c.MidThreshold ->
            [num |-> c.MidThreshold + r * 99, den |-> c.MidThreshold]
      [] r > 0 /\ ~(r < c.MidThreshold) /\ c.HighThreshold # Nil /\ r < c.HighThreshold ->
            [num |-> 1000 * (c.HighThreshold - c.MidThreshold) + (r - c.MidThreshold) * 4000,
             den |-> c.HighThreshold - c.MidThreshold]
      [] OTHER -> [num |-> 10000, den |-> 1]

\* calculateDailyRate: events per day as the fraction num/den
calculateDailyRate(r, c) ==
    CASE r <= 0 -> [num |-> 1, den |-> 1]
      [] r > 0 /\ r < c.MidThreshold ->
            [num |-> c.MidThreshold + r * 99, den |-> c.MidThreshold]
      [] r > 0 /\ ~(r < c.MidThreshold) /\ c.HighThreshold # Nil /\ r < c.HighThreshold ->
            [num |-> 100 * (c.HighThreshold - c.MidThreshold) + (r - c.MidThreshold) * 4900,
             den |-> c.HighThreshold - c.MidThreshold]
      [] OTHER -> [num |-> 10000, den |-> 1]

\* handleEvent step 6: refillRate := dailyRate / secondsPerDay, per hour, in token units
PubRefillRate(r, c) ==
    LET d == calculateDailyRate(r, c)
    IN  (d.num * TokenUnit) \div (d.den * (secondsPerDay \div SecondsPerHour))

\* a capacity of dailyRate / 24.0 without the floor of one token
PubCapacityNoFloor(r, c) ==
    LET d == calculateDailyRate(r, c)
    IN  (d.num * TokenUnit) \div (d.den * 24)

\* handleEvent step 6: capacity := dailyRate / 24.0, raised to 1 when below 1
PubCapacity(r, c) ==
    LET d == calculateDailyRate(r, c)
        capacity == (d.num * TokenUnit) \div (d.den * 24)
    IN  IF capacity < TokenUnit THEN TokenUnit ELSE capacity

\* lookupRank: the parameters of the bucket "rank-queue:" + ipGroup
IPCapacity(c) == c.RankQueueIPDailyLimit * TokenUnit
IPRefillRate(c) ==
    (c.RankQueueIPDailyLimit * TokenUnit) \div (secondsPerDay \div SecondsPerHour)

\* ------------------------------------------------------------ RankCache

\* capacity of the refresh channel (make(chan string, 100) in the code)
RefreshQueueCap == 2

\* a send that always puts the pubkey on the channel
tryEnqueueAlways(q, pubkey) == Append(q, pubkey)

\* RankCache.tryEnqueue: a non-blocking send, dropped when the channel is full
tryEnqueue(q, pubkey) ==
    IF Len(q) < RefreshQueueCap THEN Append(q, pubkey) ELSE q

\* a clamp that forgets the lower end
ClampRankUpperOnly(r) == IF r > ScoreScale THEN ScoreScale ELSE r

\* the clamp of Update and updateAndClean
ClampRank(r) ==
    IF r < 0 THEN 0 ELSE IF r > ScoreScale THEN ScoreScale ELSE r

RECURSIVE WriteRanksFirstWins(_, _, _)
\* a write loop that keeps the first occurrence of a key
WriteRanksFirstWins(rs, ts, entries) ==
    IF entries = <<>>
    THEN rs
    ELSE LET rest == WriteRanksFirstWins(rs, ts, Tail(entries))
         IN  Put(rest, Head(entries).Pubkey,
                 [Rank |-> IF Head(entries).Rank < 0 THEN 0
                           ELSE IF Head(entries).Rank > ScoreScale THEN ScoreScale
                           ELSE Head(entries).Rank,
                  Timestamp |-> ts])

RECURSIVE WriteRanks(_, _, _)
\* the write loop of Update and updateAndClean, in the order of the entries
WriteRanks(rs, ts, entries) ==
    IF entries = <<>>
    THEN rs
    ELSE WriteRanks(Put(rs, Head(entries).Pubkey,
                        [Rank |-> ClampRank(Head(entries).Rank), Timestamp |-> ts]),
                    ts, Tail(entries))

\* RankCache.Update: the cache after the call
Update(rs, ts, entries) == WriteRanks(rs, ts, entries)

\* RankCache.updateAndClean: is the eviction scan due at time t
CleanDue(lc, t) == ~(t - lc < MaxRefreshInterval \div 2)

\* an updateAndClean that scans for old entries before it writes the new ones
updateAndCleanScanFirst(rs, lc, ts, entries, t) ==
    IF CleanDue(lc, t)
    THEN WriteRanks(Restrict(rs, {pk \in DOMAIN rs :
                                    ~(t - rs[pk].Timestamp > MaxRefreshInterval)}),
                    ts, entries)
    ELSE WriteRanks(rs, ts, entries)

\* RankCache.updateAndClean: the cache after the call made at time t
updateAndClean(rs, lc, ts, entries, t) ==
    LET written == WriteRanks(rs, ts, entries)
    IN  IF CleanDue(lc, t)
        THEN Restrict(written,
                      {pk \in DOMAIN written :
                          ~(t - written[pk].Timestamp > MaxRefreshInterval)})
        ELSE written

\* RankCache.updateAndClean: lastClean after the call made at time t
updateAndCleanLastClean(lc, t) == IF CleanDue(lc, t) THEN t ELSE lc

\* a peek that asks for a refresh on every hit, fresh or stale
RankQueueOnEveryHit(rs, q, pubkey, t) == tryEnqueue(q, pubkey)

\* RankCache.Rank: the value returned, and the refresh channel after the call
RankFound(rs, pubkey) == pubkey \in DOMAIN rs
RankValue(rs, pubkey) == IF pubkey \in DOMAIN rs THEN rs[pubkey].Rank ELSE 0
RankQueue(rs, q, pubkey, t) ==
    IF pubkey \notin DOMAIN rs
    THEN tryEnqueue(q, pubkey)
    ELSE IF t - rs[pubkey].Timestamp > StaleThreshold
         THEN tryEnqueue(q, pubkey)
         ELSE q

\* the scores an oracle response carries (-1 and 11 lie outside [0,1])
OracleScores == {-1, 3, 5, 11}

\* the ways a round-trip fails: contextVMResponse (connect, publish, no
\* response before the deadline) and refreshBatch (parse error, error field,
\* isError)
OracleFailures == {"connect", "publish", "no-response", "parse", "rpc-error", "tool-error"}

\* no request reaches the oracle
NoOutcome == [ok |-> FALSE, err |-> "unasked", ts |-> 0, entries |-> <<>>]

\* what the oracle does with a request for the batch <<pubkey>> at time t
OracleOutcomes(pubkey, t) ==
    [ok : {FALSE}, err : OracleFailures, ts : {t}, entries : {<<>>}]
    \cup
    [ok : {TRUE}, err : {"none"}, ts : {t},
     entries : {<<>>} \cup {<<[Pubkey |-> pubkey, Rank |-> s]>> : s \in OracleScores}]

\* a GetRank that returns the error of a failed round-trip without writing
\* the rank-0 entry
GetRankNoSentinel(rs, lc, pubkey, t, o) ==
    IF pubkey \in DOMAIN rs /\ t - rs[pubkey].Timestamp <= StaleThreshold
    THEN [ranks |-> rs, lastClean |-> lc, value |-> rs[pubkey].Rank,
          err |-> FALSE, roundTrip |-> FALSE]
    ELSE IF ~o.ok
    THEN [ranks |-> rs, lastClean |-> lc, value |-> 0, err |-> TRUE, roundTrip |-> TRUE]
    ELSE LET rs1 == updateAndClean(rs, lc, o.ts, o.entries, t)
             lc1 == updateAndCleanLastClean(lc, t)
         IN  IF pubkey \notin DOMAIN rs1
             THEN [ranks |-> Update(rs1, t, <<[Pubkey |-> pubkey, Rank |-> 0]>>),
                   lastClean |-> lc1, value |-> 0, err |-> FALSE, roundTrip |-> TRUE]
             ELSE [ranks |-> rs1, lastClean |-> lc1, value |-> rs1[pubkey].Rank,
                   err |-> FALSE, roundTrip |-> TRUE]

\* a GetRank that returns 0 for a pubkey the response omits and caches nothing
GetRankForgetsOmitted(rs, lc, pubkey, t, o) ==
    IF pubkey \in DOMAIN rs /\ t - rs[pubkey].Timestamp <= StaleThreshold
    THEN [ranks |-> rs, lastClean |-> lc, value |-> rs[pubkey].Rank,
          err |-> FALSE, roundTrip |-> FALSE]
    ELSE IF ~o.ok
    THEN [ranks |-> Update(rs, t, <<[Pubkey |-> pubkey, Rank |-> 0]>>),
          lastClean |-> lc, value |-> 0, err |-> TRUE, roundTrip |-> TRUE]
    ELSE LET rs1 == updateAndClean(rs, lc, o.ts, o.entries, t)
             lc1 == updateAndCleanLastClean(lc, t)
         IN  [ranks |-> rs1, lastClean |-> lc1,
              value |-> IF pubkey \in DOMAIN rs1 THEN rs1[pubkey].Rank ELSE 0,
              err |-> FALSE, roundTrip |-> TRUE]

\* RankCache.GetRank run without interleaving, the oracle answering o:
\* the cache, lastClean, the value and the error it returns
GetRank(rs, lc, pubkey, t, o) ==
    IF pubkey \in DOMAIN rs /\ t - rs[pubkey].Timestamp <= StaleThreshold
    THEN [ranks |-> rs, lastClean |-> lc, value |-> rs[pubkey].Rank,
          err |-> FALSE, roundTrip |-> FALSE]
    ELSE IF ~o.ok
    THEN [ranks |-> Update(rs, t, <<[Pubkey |-> pubkey, Rank |-> 0]>>),
          lastClean |-> lc, value |-> 0, err |-> TRUE, roundTrip |-> TRUE]
    ELSE LET rs1 == updateAndClean(rs, lc, o.ts, o.entries, t)
             lc1 == updateAndCleanLastClean(lc, t)
         IN  IF pubkey \notin DOMAIN rs1
             THEN [ranks |-> Update(rs1, t, <<[Pubkey |-> pubkey, Rank |-> 0]>>),
                   lastClean |-> lc1, value |-> 0, err |-> FALSE, roundTrip |-> TRUE]
             ELSE [ranks |-> rs1, lastClean |-> lc1, value |-> rs1[pubkey].Rank,
                   err |-> FALSE, roundTrip |-> TRUE]

\* ---------------------------------------------------- admission pipeline

\* nostr.Timestamp and the seconds of a time.Time are int64; the model counts
\* hours and gives int64 the width TimeBits
TimeBits == 8
MaxInt64 == 2^(TimeBits - 1) - 1
MinInt64 == -(2^(TimeBits - 1))
WrapInt64(x) == ((x - MinInt64) % (2^TimeBits)) + MinInt64
\* the offset time.Unix adds: the time from January 1, year 1 to the Unix
\* epoch, on the model's scale
unixToInternal == 60

Kinds == {1, 3}
\* e.CreatedAt - now of the events submitted
CreatedOffsets == {-25, -24, 24, 25}

\* a lookupRank that asks the IP group's bucket before it reads the cache
lookupRankGateFirst(pubkey, g, t, o) ==
    LET found == RankFound(ranks, pubkey)
        q1 == RankQueue(ranks, refresh, pubkey, t)
        key == RankQueueKey(g)
        allowed == ConsumeOk(buckets, key, TokenUnit, IPCapacity(cfg), IPRefillRate(cfg), t)
        bs1 == Consume(buckets, key, TokenUnit, IPCapacity(cfg), IPRefillRate(cfg), t)
        f == GetRank(ranks, lastClean, pubkey, t, o)
    IN  IF found
        THEN [rank |-> RankValue(ranks, pubkey), found |-> TRUE,
              ipAsked |-> TRUE, ipAllowed |-> allowed, fetched |-> FALSE, fetchErr |-> FALSE,
              buckets |-> bs1, ranks |-> ranks, lastClean |-> lastClean, refresh |-> q1]
        ELSE IF ~allowed
        THEN [rank |-> 0, found |-> FALSE,
              ipAsked |-> TRUE, ipAllowed |-> FALSE, fetched |-> FALSE, fetchErr |-> FALSE,
              buckets |-> bs1, ranks |-> ranks, lastClean |-> lastClean, refresh |-> q1]
        ELSE [rank |-> IF f.err THEN 0 ELSE f.value, found |-> FALSE,
              ipAsked |-> TRUE, ipAllowed |-> TRUE, fetched |-> TRUE, fetchErr |-> f.err,
              buckets |-> bs1, ranks |-> f.ranks, lastClean |-> f.lastClean,
              refresh |-> IF f.err THEN tryEnqueue(q1, pubkey) ELSE q1]

\* a lookupRank that calls GetRank on every miss, whatever the IP group's
\* bucket answered
lookupRankFetchAnyway(pubkey, g, t, o) ==
    LET found == RankFound(ranks, pubkey)
        q1 == RankQueue(ranks, refresh, pubkey, t)
        key == RankQueueKey(g)
        allowed == ConsumeOk(buckets, key, TokenUnit, IPCapacity(cfg), IPRefillRate(cfg), t)
        bs1 == Consume(buckets, key, TokenUnit, IPCapacity(cfg), IPRefillRate(cfg), t)
        f == GetRank(ranks, lastClean, pubkey, t, o)
    IN  IF found
        THEN [rank |-> RankValue(ranks, pubkey), found |-> TRUE,
              ipAsked |-> FALSE, ipAllowed |-> FALSE, fetched |-> FALSE, fetchErr |-> FALSE,
              buckets |-> buckets, ranks |-> ranks, lastClean |-> lastClean, refresh |-> q1]
        ELSE [rank |-> IF f.err THEN 0 ELSE f.value, found |-> FALSE,
              ipAsked |-> TRUE, ipAllowed |-> allowed, fetched |-> TRUE, fetchErr |-> f.err,
              buckets |-> bs1, ranks |-> f.ranks, lastClean |-> f.lastClean,
              refresh |-> IF f.err THEN tryEnqueue(q1, pubkey) ELSE q1]

\* lookupRank(e.PubKey, c.IP().Group()) at time t, the oracle answering o
lookupRank(pubkey, g, t, o) ==
    LET found == RankFound(ranks, pubkey)
        q1 == RankQueue(ranks, refresh, pubkey, t)
        key == RankQueueKey(g)
        allowed == ConsumeOk(buckets, key, TokenUnit, IPCapacity(cfg), IPRefillRate(cfg), t)
        bs1 == Consume(buckets, key, TokenUnit, IPCapacity(cfg), IPRefillRate(cfg), t)
        f == GetRank(ranks, lastClean, pubkey, t, o)
    IN  IF found
        THEN [rank |-> RankValue(ranks, pubkey), found |-> TRUE,
              ipAsked |-> FALSE, ipAllowed |-> FALSE, fetched |-> FALSE, fetchErr |-> FALSE,
              buckets |-> buckets, ranks |-> ranks, lastClean |-> lastClean, refresh |-> q1]
        ELSE IF ~allowed
        THEN [rank |-> 0, found |-> FALSE,
              ipAsked |-> TRUE, ipAllowed |-> FALSE, fetched |-> FALSE, fetchErr |-> FALSE,
              buckets |-> bs1, ranks |-> ranks, lastClean |-> lastClean, refresh |-> q1]
        ELSE [rank |-> IF f.err THEN 0 ELSE f.value, found |-> FALSE,
              ipAsked |-> TRUE, ipAllowed |-> TRUE, fetched |-> TRUE, fetchErr |-> f.err,
              buckets |-> bs1, ranks |-> f.ranks, lastClean |-> f.lastClean,
              refresh |-> IF f.err THEN tryEnqueue(q1, pubkey) ELSE q1]

\* lookupRank reaches cache.GetRank: a miss, and the IP group's bucket grants
WillFetch(pubkey, g, t) ==
    /\ ~RankFound(ranks, pubkey)
    /\ ConsumeOk(buckets, RankQueueKey(g), TokenUnit, IPCapacity(cfg), IPRefillRate(cfg), t)

\* handleEvent step 3: the kind gate rejects
KindGate(e, rank) == rank < cfg.MidThreshold /\ e.Kind # 1

\* a URL gate applied to every score
URLGateAnyScore(e, rank) == cfg.URLPolicyEnabled /\ e.Kind = 1 /\ e.HasURL
\* a URL gate that is never applied
URLGateOff(e, rank) == FALSE
\* handleEvent step 3.5: the URL gate rejects
URLGate(e, rank) ==
    cfg.URLPolicyEnabled /\ rank < cfg.MidThreshold /\ e.Kind = 1 /\ e.HasURL

\* time.Unix(sec, 0): the seconds since year 1 a time.Time holds, computed
\* as sec + unixToInternal in int64 arithmetic, which wraps around
TimeUnix(sec) == WrapInt64(sec + unixToInternal)

\* t.Sub(u) for two times held as seconds since year 1. The Duration is
\* saturated far beyond the 24h windows it is compared with, and its sign
\* follows the order of the two held values
TimeSub(t, u) == t - u

\* handleEvent step 4: the timestamp check rejects
TimestampGate(e, t) ==
    TimeSub(TimeUnix(e.CreatedAt), TimeUnix(t)) > timestampSanityWindow

\* handleEvent step 5: the event is saved without rate limiting
BackfillFree(e, rank, t) ==
    /\ cfg.HighThreshold # Nil
    /\ rank >= cfg.HighThreshold
    /\ TimeSub(TimeUnix(t), TimeUnix(e.CreatedAt)) > backfillAgeThreshold

\* a handleEvent that gives the token back when the store fails
admitRefundOnStoreError(e, l, t, saveOk) ==
    LET rank == l.rank
        saved == IF saveOk THEN "Saved" ELSE "StoreError"
        capacity == PubCapacity(rank, cfg)
        refillRate == PubRefillRate(rank, cfg)
        untouched == [pubAsked |-> FALSE, consumed |-> FALSE, backfill |-> FALSE,
                      storeCalls |-> 0, buckets |-> l.buckets]
        asked == [untouched EXCEPT
                    !.pubAsked = TRUE,
                    !.buckets = Consume(l.buckets, e.PubKey, TokenUnit, capacity, refillRate, t)]
    IN  IF KindGate(e, rank)
        THEN [result |-> "KindNotAllowed"] @@ untouched
        ELSE IF URLGate(e, rank)
        THEN [result |-> "URLNotAllowed"] @@ untouched
        ELSE IF TimestampGate(e, t)
        THEN [result |-> "InvalidTimestamp"] @@ untouched
        ELSE IF BackfillFree(e, rank, t)
        THEN [result |-> saved] @@ [untouched EXCEPT !.backfill = TRUE, !.storeCalls = 1]
        ELSE IF ~ConsumeOk(l.buckets, e.PubKey, TokenUnit, capacity, refillRate, t)
        THEN [result |-> "RateLimited"] @@ asked
        ELSE IF saveOk
        THEN [result |-> saved] @@ [asked EXCEPT !.consumed = TRUE, !.storeCalls = 1]
        ELSE [result |-> saved] @@
             [untouched EXCEPT !.pubAsked = TRUE, !.consumed = TRUE, !.storeCalls = 1]

\* handleEvent steps 3 to 7 for the event e, looked up as l, at time t:
\* the result, and what was done to the pubkey's bucket and to the store
admit(e, l, t, saveOk) ==
    LET rank == l.rank
        saved == IF saveOk THEN "Saved" ELSE "StoreError"
        capacity == PubCapacity(rank, cfg)
        refillRate == PubRefillRate(rank, cfg)
        untouched == [pubAsked |-> FALSE, consumed |-> FALSE, backfill |-> FALSE,
                      storeCalls |-> 0, buckets |-> l.buckets]
        asked == [untouched EXCEPT
                    !.pubAsked = TRUE,
                    !.buckets = Consume(l.buckets, e.PubKey, TokenUnit, capacity, refillRate, t)]
    IN  IF KindGate(e, rank)
        THEN [result |-> "KindNotAllowed"] @@ untouched
        ELSE IF URLGate(e, rank)
        THEN [result |-> "URLNotAllowed"] @@ untouched
        ELSE IF TimestampGate(e, t)
        THEN [result |-> "InvalidTimestamp"] @@ untouched
        ELSE IF BackfillFree(e, rank, t)
        THEN [result |-> saved] @@ [untouched EXCEPT !.backfill = TRUE, !.storeCalls = 1]
        ELSE IF ~ConsumeOk(l.buckets, e.PubKey, TokenUnit, capacity, refillRate, t)
        THEN [result |-> "RateLimited"] @@ asked
        ELSE [result |-> saved] @@ [asked EXCEPT !.consumed = TRUE, !.storeCalls = 1]

\* ------------------------------------------ specification: the pipeline

MaxNow == 25
\* handleEvent calls in one run
MaxEvents == 2
TickSteps == {25}
NoEvent == [PubKey |-> "", Kind |-> 0, CreatedAt |-> 0, HasURL |-> FALSE]

NoLast ==
    [result |-> "none", event |-> NoEvent, ipGroup |-> "", at |-> 0,
     rank |-> 0, found |-> FALSE, ipAsked |-> FALSE, ipAllowed |-> FALSE,
     fetched |-> FALSE, fetchErr |-> FALSE,
     pubAsked |-> FALSE, consumed |-> FALSE, backfill |-> FALSE, storeCalls |-> 0]
NoCalls == [id \in BucketIds |-> [params |-> {}, grants |-> <<>>]]

Init ==
    /\ now = 0
    /\ cfg \in Configs
    /\ buckets = EmptyMap
    /\ cleanerNext = CleanupInterval
    /\ ranks = EmptyMap
    /\ lastClean = 0
    /\ refresh = <<>>
    /\ last = NoLast
    /\ calls = NoCalls
    /\ pc = <<>>
    /\ flight = EmptyMap
    /\ flightCalls = <<>>
    /\ got = <<>>
    /\ roundTrips = 0
    /\ handled = 0

\* history: a Consume(id, 1, p[1], p[2]) call made at time t, granted or not
LogCall(cs, id, asked, p, granted, t) ==
    IF ~asked
    THEN cs
    ELSE [cs EXCEPT ![id].params = @ \cup {p},
                    ![id].grants = IF granted THEN Append(@, t) ELSE @]

\* relay.On.Event: handleEvent(ctx, c, e, ...) from start to return; the
\* oracle answers o when lookupRank fetches, the store answers saveOk when
\* Save is reached
HandleEvent(e, g, o, saveOk) ==
    /\ (o = NoOutcome) = ~WillFetch(e.PubKey, g, now)
    /\ \E l \in {lookupRank(e.PubKey, g, now, o)} :
       \E a \in {admit(e, l, now, saveOk)} :
        /\ a.storeCalls = 1 \/ saveOk
        /\ buckets' = a.buckets
        /\ ranks' = l.ranks
        /\ lastClean' = l.lastClean
        /\ refresh' = l.refresh
        /\ last' = [result |-> a.result, event |-> e, ipGroup |-> g, at |-> now,
                    rank |-> l.rank, found |-> l.found,
                    ipAsked |-> l.ipAsked, ipAllowed |-> l.ipAllowed,
                    fetched |-> l.fetched, fetchErr |-> l.fetchErr,
                    pubAsked |-> a.pubAsked, consumed |-> a.consumed,
                    backfill |-> a.backfill, storeCalls |-> a.storeCalls]
        /\ calls' = LogCall(LogCall(calls, RankQueueKey(g), l.ipAsked,
                                    <<IPCapacity(cfg), IPRefillRate(cfg)>>, l.ipAllowed, now),
                            e.PubKey, a.pubAsked,
                            <<PubCapacity(l.rank, cfg), PubRefillRate(l.rank, cfg)>>,
                            a.consumed, now)
        /\ handled' = handled + 1
        /\ UNCHANGED <<now, cfg, cleanerNext, flightVars>>

\* time passes
Tick(d) ==
    /\ now + d <= MaxNow
    /\ now' = now + d
    /\ UNCHANGED <<cfg, buckets, cleanerNext, ranks, lastClean, refresh, last,
                   calls, handled, flightVars>>

\* the events clients submit: dated around now, or at the largest timestamp
\* an event can carry; the content of an event matters only through
\* ContainsURL(e.Content), which handleEvent evaluates for kind 1 alone
Events ==
    {e \in [PubKey : Pubkeys, Kind : Kinds,
            CreatedAt : {now + d : d \in CreatedOffsets} \cup {MaxInt64},
            HasURL : BOOLEAN] :
        e.Kind = 1 \/ ~e.HasURL}

\* ------------------------------------------- specification: the limiter

\* the (capacity, refillRate) pairs callers pass: those of the scores 0 and
\* MidThreshold under DefaultCfg
LimiterParams ==
    {<<PubCapacity(r, DefaultCfg), PubRefillRate(r, DefaultCfg)>> : r \in {0, 5}}
LimiterIds == {"a"}
LimiterTickSteps == {1, 22}

LimiterInit ==
    /\ now = 0
    /\ cfg = DefaultCfg
    /\ buckets = EmptyMap
    /\ cleanerNext = CleanupInterval
    /\ ranks = EmptyMap
    /\ lastClean = 0
    /\ refresh = <<>>
    /\ last = NoLast
    /\ calls = NoCalls
    /\ pc = <<>>
    /\ flight = EmptyMap
    /\ flightCalls = <<>>
    /\ got = <<>>
    /\ roundTrips = 0
    /\ handled = 0

\* a caller runs Limiter.Consume(id, 1, capacity, refillRate)
LConsume(id, p) ==
    /\ Len(calls[id].grants) < MaxGrants
    /\ buckets' = Consume(buckets, id, TokenUnit, p[1], p[2], now)
    /\ calls' = LogCall(calls, id, TRUE, p,
                        ConsumeOk(buckets, id, TokenUnit, p[1], p[2], now), now)
    /\ UNCHANGED <<now, cfg, cleanerNext, ranks, lastClean, refresh, last,
                   handled, flightVars>>

\* a caller runs Limiter.GetTokens(id)
LGetTokens(id) ==
    /\ buckets' = GetTokens(buckets, id, now)
    /\ buckets' # buckets
    /\ UNCHANGED <<now, cfg, cleanerNext, ranks, lastClean, refresh, last,
                   calls, handled, flightVars>>

\* Limiter.cleaner: the ticker fires every CleanupInterval and runs Clean
CleanerTick ==
    /\ now >= cleanerNext
    /\ buckets' = Clean(buckets, now)
    /\ cleanerNext' = cleanerNext + CleanupInterval
    /\ UNCHANGED <<now, cfg, ranks, lastClean, refresh, last,
                   calls, handled, flightVars>>

\* time passes
LTick(d) ==
    /\ now + d <= MaxTime
    /\ now' = now + d
    /\ UNCHANGED <<cfg, buckets, cleanerNext, ranks, lastClean, refresh, last,
                   calls, handled, flightVars>>

LimiterNext ==
    \/ \E id \in LimiterIds, p \in LimiterParams : LConsume(id, p)
    \/ \E id \in LimiterIds : LGetTokens(id)
    \/ CleanerTick
    \/ \E d \in LimiterTickSteps : LTick(d)

SpecLimiter == LimiterInit /\ [][LimiterNext]_vars

Next ==
    \/ /\ handled < MaxEvents
       /\ \E e \in Events, g \in IPGroups, saveOk \in BOOLEAN :
             \E o \in OracleOutcomes(e.PubKey, now) \cup {NoOutcome} :
                HandleEvent(e, g, o, saveOk)
    \/ CleanerTick
    \/ \E d \in TickSteps : Tick(d)

Spec == Init /\ [][Next]_vars

\* ------------------------------- specification: concurrent GetRank calls

\* callers of GetRank(ctx, FlightKey), all started together on an empty cache
NCallers == 2
Callers == 1..NCallers
FlightKey == "a"

NoResult == [done |-> FALSE, value |-> 0, err |-> FALSE, overlapped |-> FALSE]

FlightInit ==
    /\ now = 0
    /\ cfg = DefaultCfg
    /\ buckets = EmptyMap
    /\ cleanerNext = CleanupInterval
    /\ ranks = EmptyMap
    /\ lastClean = 0
    /\ refresh = <<>>
    /\ last = NoLast
    /\ calls = NoCalls
    /\ handled = 0
    /\ pc = [c \in Callers |-> [at |-> "check", on |-> 0]]
    /\ flight = EmptyMap
    /\ flightCalls = [c \in Callers |-> "none"]
    /\ got = [c \in Callers |-> NoResult]
    /\ roundTrips = 0

\* the caller returns (value, err); overlapped records that every other call
\* had taken its first step by then
Return(c, value, err) ==
    /\ got' = [got EXCEPT ![c] = [done |-> TRUE, value |-> value, err |-> err,
                                  overlapped |-> \A d \in Callers \ {c} : pc[d].at # "check"]]
    /\ pc' = [pc EXCEPT ![c].at = "done"]

\* GetRank lines 189-195: the first cache check
GRCheck(c) ==
    /\ pc[c].at = "check"
    /\ IF FlightKey \in DOMAIN ranks /\ now - ranks[FlightKey].Timestamp <= StaleThreshold
       THEN Return(c, ranks[FlightKey].Rank, FALSE)
       ELSE /\ pc' = [pc EXCEPT ![c].at = "do"]
            /\ got' = got
    /\ UNCHANGED <<now, cfg, buckets, cleanerNext, ranks, lastClean, refresh, last,
                   calls, handled, flight, flightCalls, roundTrips>>

\* flight.Do: join the call in flight for the key, or register a new one
GRDo(c) ==
    /\ pc[c].at = "do"
    /\ IF FlightKey \in DOMAIN flight
       THEN /\ pc' = [pc EXCEPT ![c] = [at |-> "wait", on |-> flight[FlightKey]]]
            /\ UNCHANGED <<flight, flightCalls>>
       ELSE /\ pc' = [pc EXCEPT ![c] = [at |-> "fn", on |-> c]]
            /\ flight' = Put(flight, FlightKey, c)
            /\ flightCalls' = [flightCalls EXCEPT ![c] = "running"]
    /\ UNCHANGED <<now, cfg, buckets, cleanerNext, ranks, lastClean, refresh, last,
                   calls, handled, got, roundTrips>>

\* the function passed to flight.Do: refreshBatch(ctx, {pubkey}), the oracle
\* answering o, and on failure Update(now, rank 0)
GRFn(c, o) ==
    /\ pc[c].at = "fn"
    /\ roundTrips' = roundTrips + 1
    /\ IF o.ok
       THEN /\ ranks' = updateAndClean(ranks, lastClean, o.ts, o.entries, now)
            /\ lastClean' = updateAndCleanLastClean(lastClean, now)
            /\ flightCalls' = [flightCalls EXCEPT ![c] = "nil"]
       ELSE /\ ranks' = Update(ranks, now, <<[Pubkey |-> FlightKey, Rank |-> 0]>>)
            /\ lastClean' = lastClean
            /\ flightCalls' = [flightCalls EXCEPT ![c] = "error"]
    /\ pc' = [pc EXCEPT ![c].at = "finish"]
    /\ UNCHANGED <<now, cfg, buckets, cleanerNext, refresh, last,
                   calls, handled, flight, got>>

\* singleflight's doCall after fn returned: the key is removed from the group
\* and the waiters are released
GRFinish(c) ==
    /\ pc[c].at = "finish"
    /\ flight' = IF FlightKey \in DOMAIN flight /\ flight[FlightKey] = c
                 THEN Restrict(flight, DOMAIN flight \ {FlightKey})
                 ELSE flight
    /\ pc' = [pc EXCEPT ![c].at = "after"]
    /\ UNCHANGED <<now, cfg, buckets, cleanerNext, ranks, lastClean, refresh, last,
                   calls, handled, flightCalls, got, roundTrips>>

\* a waiter of flight.Do wakes once the call it joined has finished
GRWake(c) ==
    /\ pc[c].at = "wait"
    /\ pc[pc[c].on].at \in {"after", "done"}
    /\ pc' = [pc EXCEPT ![c].at = "after"]
    /\ UNCHANGED <<now, cfg, buckets, cleanerNext, ranks, lastClean, refresh, last,
                   calls, handled, flight, flightCalls, got, roundTrips>>

\* GetRank lines 207-221: the shared error is returned, or the cache is read again
GRAfter(c) ==
    /\ pc[c].at = "after"
    /\ IF flightCalls[pc[c].on] = "error"
       THEN /\ Return(c, 0, TRUE)
            /\ ranks' = ranks
       ELSE IF FlightKey \notin DOMAIN ranks
       THEN /\ Return(c, 0, FALSE)
            /\ ranks' = Update(ranks, now, <<[Pubkey |-> FlightKey, Rank |-> 0]>>)
       ELSE /\ Return(c, ranks[FlightKey].Rank, FALSE)
            /\ ranks' = ranks
    /\ UNCHANGED <<now, cfg, buckets, cleanerNext, lastClean, refresh, last,
                   calls, handled, flight, flightCalls, roundTrips>>

FlightNext ==
    \/ \E c \in Callers : GRCheck(c)
    \/ \E c \in Callers : GRDo(c)
    \/ \E c \in Callers : \E o \in OracleOutcomes(FlightKey, now) : GRFn(c, o)
    \/ \E c \in Callers : GRFinish(c)
    \/ \E c \in Callers : GRWake(c)
    \/ \E c \in Callers : GRAfter(c)

SpecFlight == FlightInit /\ [][FlightNext]_vars

\* ------------------------------------ specification: the rank cache alone

MaxCacheTime == 170
CacheTickSteps == {84, 85}
\* cache operations in one run
MaxCacheOps == 3

\* the journal of the cache specification: the most recent operation, its
\* arguments, what the oracle answered and what the operation returned
NoOp ==
    [op |-> "none", key |-> "", batch |-> <<>>, ok |-> FALSE, ts |-> 0,
     entries |-> <<>>, value |-> 0, found |-> FALSE, err |-> FALSE,
     roundTrip |-> FALSE]

\* a PubRank{Pubkey, Rank} as callers pass it to Update and as refreshBatch
\* builds it from a trust score of the response
CacheScores == {-1, 3, 11}
PubRanks == [Pubkey : Pubkeys, Rank : CacheScores]
\* the lists of PubRank an operation receives: up to two entries, a key may
\* occur twice
PubRankLists ==
    {<<>>} \cup {<<x>> : x \in PubRanks} \cup {<<x, y>> : x, y \in PubRanks}

\* response.CreatedAt relative to the local clock: the oracle stamps the
\* response, on time or more than MaxRefreshInterval behind
ResponseTsOffsets == {0, -(MaxRefreshInterval + 1)}

\* what the oracle does with a request at time t: a failure, or a response
\* carrying its timestamp and one of the given lists of trust scores
BatchOutcomes(t, lists) ==
    [ok : {FALSE}, err : {"no-response"}, ts : {t}, entries : {<<>>}]
    \cup
    [ok : {TRUE}, err : {"none"}, ts : {t + d : d \in ResponseTsOffsets},
     entries : lists]

\* the trust scores of a response: at most one per pubkey, for none, some or
\* all of the pubkeys
ResponseLists ==
    {l \in PubRankLists : Len(l) = 2 => l[1].Pubkey # l[2].Pubkey}

\* the batches refreshBatch is called with; GetRank makes the batches of one
Batches == {<<"a", "b">>}

CacheInit ==
    /\ now = 0
    /\ cfg = DefaultCfg
    /\ buckets = EmptyMap
    /\ cleanerNext = CleanupInterval
    /\ ranks = EmptyMap
    /\ lastClean = 0
    /\ refresh = <<>>
    /\ last = NoOp
    /\ calls = NoCalls
    /\ handled = 0
    /\ pc = <<>>
    /\ flight = EmptyMap
    /\ flightCalls = <<>>
    /\ got = <<>>
    /\ roundTrips = 0

\* a caller runs cache.Update(time.Now(), entries...)
CacheUpdate(entries) ==
    /\ handled < MaxCacheOps
    /\ entries # <<>>
    /\ ranks' = Update(ranks, now, entries)
    /\ last' = [NoOp EXCEPT !.op = "Update", !.ts = now, !.entries = entries]
    /\ handled' = handled + 1
    /\ UNCHANGED <<now, cfg, buckets, cleanerNext, lastClean, refresh,
                   calls, flightVars>>

\* a caller runs cache.Rank(pubkey)
CacheRank(pubkey) ==
    /\ handled < MaxCacheOps
    /\ refresh' = RankQueue(ranks, refresh, pubkey, now)
    /\ last' = [NoOp EXCEPT !.op = "Rank", !.key = pubkey,
                            !.value = RankValue(ranks, pubkey),
                            !.found = RankFound(ranks, pubkey)]
    /\ handled' = handled + 1
    /\ UNCHANGED <<now, cfg, buckets, cleanerNext, ranks, lastClean,
                   calls, flightVars>>

\* a caller runs cache.GetRank(ctx, pubkey) with no other call in flight; the
\* oracle answers o when the call makes a round-trip
CacheGetRank(pubkey, o) ==
    /\ handled < MaxCacheOps
    /\ \E f \in {GetRank(ranks, lastClean, pubkey, now, o)} :
        /\ (o = NoOutcome) = ~f.roundTrip
        /\ ranks' = f.ranks
        /\ lastClean' = f.lastClean
        /\ last' = [NoOp EXCEPT !.op = "GetRank", !.key = pubkey,
                                !.batch = IF f.roundTrip THEN <<pubkey>> ELSE <<>>,
                                !.ok = o.ok, !.ts = o.ts, !.entries = o.entries,
                                !.value = f.value,
                                !.found = RankFound(ranks, pubkey),
                                !.err = f.err, !.roundTrip = f.roundTrip]
    /\ handled' = handled + 1
    /\ UNCHANGED <<now, cfg, buckets, cleanerNext, refresh, calls, flightVars>>

\* the refresher runs refreshBatch(ctx, batch), the oracle answering o: a
\* response is written with updateAndClean, a failure leaves the cache as it is
CacheRefreshBatch(batch, o) ==
    /\ handled < MaxCacheOps
    /\ IF o.ok
       THEN /\ ranks' = updateAndClean(ranks, lastClean, o.ts, o.entries, now)
            /\ lastClean' = updateAndCleanLastClean(lastClean, now)
       ELSE UNCHANGED <<ranks, lastClean>>
    /\ last' = [NoOp EXCEPT !.op = "refreshBatch", !.batch = batch,
                            !.ok = o.ok, !.ts = o.ts, !.entries = o.entries,
                            !.err = ~o.ok, !.roundTrip = TRUE]
    /\ handled' = handled + 1
    /\ UNCHANGED <<now, cfg, buckets, cleanerNext, refresh, calls, flightVars>>

\* time passes
CacheTick(d) ==
    /\ now + d <= MaxCacheTime
    /\ now' = now + d
    /\ UNCHANGED <<cfg, buckets, cleanerNext, ranks, lastClean, refresh, last,
                   calls, handled, flightVars>>

CacheNext ==
    \/ \E entries \in PubRankLists : CacheUpdate(entries)
    \/ \E pubkey \in Pubkeys : CacheRank(pubkey)
    \/ \E pubkey \in Pubkeys :
        \E o \in BatchOutcomes(now, {l \in ResponseLists : Len(l) <= 1}) \cup {NoOutcome} :
            CacheGetRank(pubkey, o)
    \/ \E batch \in Batches : \E o \in BatchOutcomes(now, ResponseLists) :
            CacheRefreshBatch(batch, o)
    \/ \E d \in CacheTickSteps : CacheTick(d)

SpecCache == CacheInit /\ [][CacheNext]_vars

\* ------------------------------- specification: calculateDailyRate alone

\* the scores calculateDailyRate is applied to: the cache holds [0,1]
RateScores == 0..ScoreScale

\* the configurations loadConfig accepts: MID_THRESHOLD in [0,1], and
\* HIGH_THRESHOLD unset or in [0,1] and above MID_THRESHOLD
RateConfigs ==
    {c \in [MidThreshold : 0..ScoreScale,
            HighThreshold : {Nil} \cup (0..ScoreScale),
            URLPolicyEnabled : {FALSE}, RankQueueIPDailyLimit : {1}] :
        c.HighThreshold # Nil => c.HighThreshold > c.MidThreshold}

NoRate == [op |-> "none", r |-> 0, rate |-> [num |-> 1, den |-> 1]]

RateInit ==
    /\ now = 0
    /\ cfg \in RateConfigs
    /\ buckets = EmptyMap
    /\ cleanerNext = CleanupInterval
    /\ ranks = EmptyMap
    /\ lastClean = 0
    /\ refresh = <<>>
    /\ last = NoRate
    /\ calls = NoCalls
    /\ handled = 0
    /\ pc = <<>>
    /\ flight = EmptyMap
    /\ flightCalls = <<>>
    /\ got = <<>>
    /\ roundTrips = 0

\* handleEvent calls calculateDailyRate(rank, cfg)
RateApply(r) ==
    /\ last' = [op |-> "calculateDailyRate", r |-> r,
                rate |-> calculateDailyRate(r, cfg)]
    /\ UNCHANGED <<now, cfg, buckets, cleanerNext, ranks, lastClean, refresh,
                   calls, handled, flightVars>>

RateNext == \E r \in RateScores : RateApply(r)

SpecRate == RateInit /\ [][RateNext]_vars

\* ------------------ specification: one identity that keeps submitting

\* the clock of this specification stops here
MaxLiveTime == 48
LiveTickSteps == {6}
LivePubkey == "a"

\* the valid kind-1 events the identity submits: dated now, without a URL
LiveEvents ==
    {[PubKey |-> LivePubkey, Kind |-> 1, CreatedAt |-> now, HasURL |-> FALSE]}

LiveInit ==
    /\ now = 0
    /\ cfg \in Configs
    /\ buckets = EmptyMap
    /\ cleanerNext = CleanupInterval
    /\ ranks = EmptyMap
    /\ lastClean = 0
    /\ refresh = <<>>
    /\ last = NoLast @@ [rejectedBefore |-> FALSE]
    /\ calls = NoCalls
    /\ handled = 0
    /\ pc = <<>>
    /\ flight = EmptyMap
    /\ flightCalls = <<>>
    /\ got = <<>>
    /\ roundTrips = 0

\* relay.On.Event: handleEvent(ctx, c, e, ...) from start to return, as in
\* HandleEvent; the journal keeps the latest call and whether the call before
\* it was rejected as rate limited
LiveSubmit(e, g, o, saveOk) ==
    /\ (o = NoOutcome) = ~WillFetch(e.PubKey, g, now)
    /\ \E l \in {lookupRank(e.PubKey, g, now, o)} :
       \E a \in {admit(e, l, now, saveOk)} :
        /\ a.storeCalls = 1 \/ saveOk
        /\ buckets' = a.buckets
        /\ ranks' = l.ranks
        /\ lastClean' = l.lastClean
        /\ refresh' = l.refresh
        /\ last' = [result |-> a.result, event |-> e, ipGroup |-> g, at |-> now,
                    rank |-> l.rank, found |-> l.found,
                    ipAsked |-> l.ipAsked, ipAllowed |-> l.ipAllowed,
                    fetched |-> l.fetched, fetchErr |-> l.fetchErr,
                    pubAsked |-> a.pubAsked, consumed |-> a.consumed,
                    backfill |-> a.backfill, storeCalls |-> a.storeCalls,
                    rejectedBefore |-> last.result = "RateLimited"]
        /\ UNCHANGED <<now, cfg, cleanerNext, calls, handled, flightVars>>

\* time passes
LiveTick(d) ==
    /\ now + d <= MaxLiveTime
    /\ now' = now + d
    /\ UNCHANGED <<cfg, buckets, cleanerNext, ranks, lastClean, refresh, last,
                   calls, handled, flightVars>>

\* what the oracle answers about a low-trust identity: a failure, no score,
\* or a score below MidThreshold
LiveOutcomes(pubkey, t) ==
    {o \in OracleOutcomes(pubkey, t) :
        \A i \in 1..Len(o.entries) : o.entries[i].Rank < cfg.MidThreshold}

\* the identity submits one more event
LiveSubmits ==
    \E e \in LiveEvents, g \in IPGroups, saveOk \in BOOLEAN :
        \E o \in LiveOutcomes(e.PubKey, now) \cup {NoOutcome} :
            LiveSubmit(e, g, o, saveOk)

LiveTicks == \E d \in LiveTickSteps : LiveTick(d)

LiveNext ==
    \/ LiveSubmits
    \/ CleanerTick
    \/ LiveTicks

\* time advances while it can, and the identity keeps submitting
SpecLive ==
    /\ LiveInit
    /\ [][LiveNext]_vars
    /\ WF_vars(LiveTicks)
    /\ WF_vars(LiveSubmits)

\* ------------- specification: rank lookups and the oracle connection lock
\*
\* In this specification the clock `now` counts seconds. pc gives the
\* position of the refresher worker and of each admission inside GetRank,
\* got the time an admission entered lookupRank, the deadline of its context
\* and the time it left, and flight the single-flight leader, the holder of
\* relayMu and whether c.relay is connected.

\* lookupRank: context.WithTimeout(ctx, 2*time.Second)
LookupTimeout == 2
\* contextVMResponse: context.WithTimeout(ctx, 5*time.Second)
ResponseTimeout == 5
\* the clock of this specification stops here
MaxDelayTime == 6

Refresher == "refresher"
Admissions == {"adm1", "adm2"}
DelayProcs == Admissions \cup {Refresher}
NoProc == "none"
NotYet == -1

DelayInit ==
    /\ now = 0
    /\ cfg = DefaultCfg
    /\ buckets = EmptyMap
    /\ cleanerNext = CleanupInterval
    /\ ranks = EmptyMap
    /\ lastClean = 0
    /\ refresh = <<>>
    /\ last = NoLast
    /\ calls = NoCalls
    /\ handled = 0
    /\ pc = [p \in DelayProcs |-> "idle"]
    /\ flight = [leader |-> NoProc, lockHolder |-> NoProc, connected |-> FALSE]
    /\ flightCalls = <<>>
    /\ got = [p \in DelayProcs |-> [start |-> NotYet, deadline |-> NotYet, end |-> NotYet]]
    /\ roundTrips = 0

DelayUnchanged ==
    UNCHANGED <<cfg, buckets, cleanerNext, ranks, lastClean, refresh, last,
                calls, handled, flightCalls, roundTrips>>

\* an admission misses the cache, is granted by its IP group's bucket and
\* calls GetRank under a context of LookupTimeout: flight.Do makes it the
\* leader, who runs refreshBatch and comes to getRelay, or a waiter on the
\* call in flight
LookupStart(p) ==
    /\ p \in Admissions
    /\ pc[p] = "idle"
    /\ got[p].start = NotYet
    /\ got' = [got EXCEPT ![p] = [start |-> now, deadline |-> now + LookupTimeout,
                                  end |-> NotYet]]
    /\ IF flight.leader = NoProc
       THEN /\ flight' = [flight EXCEPT !.leader = p]
            /\ pc' = [pc EXCEPT ![p] = "lock"]
       ELSE /\ pc' = [pc EXCEPT ![p] = "wait"]
            /\ UNCHANGED flight
    /\ UNCHANGED now
    /\ DelayUnchanged

\* the refresher flushes a batch: refreshBatch under the worker's context,
\* contextVMResponse bounds the round-trip by ResponseTimeout
RefresherFlush ==
    /\ pc[Refresher] = "idle"
    /\ got' = [got EXCEPT ![Refresher] = [start |-> now,
                                          deadline |-> now + ResponseTimeout,
                                          end |-> NotYet]]
    /\ pc' = [pc EXCEPT ![Refresher] = "lock"]
    /\ UNCHANGED <<now, flight>>
    /\ DelayUnchanged

\* getRelay: c.relayMu.Lock() returns; a connected relay is handed out and
\* the lock released at once, otherwise nostr.RelayConnect starts with the
\* lock held
GetRelayLocked(p) ==
    /\ pc[p] = "lock"
    /\ flight.lockHolder = NoProc
    /\ IF flight.connected
       THEN /\ pc' = [pc EXCEPT ![p] = "roundtrip"]
            /\ UNCHANGED flight
       ELSE /\ pc' = [pc EXCEPT ![p] = "connect"]
            /\ flight' = [flight EXCEPT !.lockHolder = p]
    /\ UNCHANGED <<now, got>>
    /\ DelayUnchanged

\* p leaves refreshBatch: the refresher goes back to its loop, an admission
\* ends its flight, wakes the callers waiting on it and returns with them
Leave(p) ==
    IF p = Refresher
    THEN [q \in DelayProcs |-> IF q = p THEN "idle" ELSE pc[q]]
    ELSE [q \in DelayProcs |-> IF q = p \/ pc[q] = "wait" THEN "done" ELSE pc[q]]
Left(p) ==
    [q \in DelayProcs |->
        IF q # Refresher /\ p # Refresher /\ (q = p \/ pc[q] = "wait")
        THEN [got[q] EXCEPT !.end = now]
        ELSE got[q]]

\* nostr.RelayConnect(ctx, url) returns, with a connection (before the
\* deadline of ctx) or with an error, and getRelay unlocks
RelayConnectReturns(p, ok) ==
    /\ pc[p] = "connect"
    /\ ok => now < got[p].deadline
    /\ IF ok
       THEN /\ flight' = [flight EXCEPT !.lockHolder = NoProc, !.connected = TRUE]
            /\ pc' = [pc EXCEPT ![p] = "roundtrip"]
            /\ UNCHANGED got
       ELSE /\ flight' = [flight EXCEPT !.lockHolder = NoProc,
                                        !.leader = IF @ = p THEN NoProc ELSE @]
            /\ pc' = Leave(p)
            /\ got' = Left(p)
    /\ UNCHANGED now
    /\ DelayUnchanged

\* Publish and QuerySync return, with the response or with an error (the
\* deadline of ctx at the latest); a publish error drops the connection
RoundTripReturns(p, dropped) ==
    /\ pc[p] = "roundtrip"
    /\ flight' = [flight EXCEPT !.leader = IF @ = p THEN NoProc ELSE @,
                                !.connected = IF dropped THEN FALSE ELSE @]
    /\ pc' = Leave(p)
    /\ got' = Left(p)
    /\ UNCHANGED now
    /\ DelayUnchanged

\* a second passes: calls that watch their context return by its deadline,
\* and a free lock is taken without delay
DelayTick ==
    /\ now < MaxDelayTime
    /\ \A p \in DelayProcs :
        /\ pc[p] \in {"connect", "roundtrip"} => now + 1 <= got[p].deadline
        /\ pc[p] = "lock" => flight.lockHolder # NoProc
    /\ now' = now + 1
    /\ UNCHANGED <<pc, flight, got>>
    /\ DelayUnchanged

DelayNext ==
    \/ \E p \in Admissions : LookupStart(p)
    \/ RefresherFlush
    \/ \E p \in DelayProcs : GetRelayLocked(p)
    \/ \E p \in DelayProcs, ok \in BOOLEAN : RelayConnectReturns(p, ok)
    \/ \E p \in DelayProcs, dropped \in BOOLEAN : RoundTripReturns(p, dropped)
    \/ DelayTick

SpecDelay == DelayInit /\ [][DelayNext]_vars

\* ------------------------- specification: the two workers and shutdown
\*
\* pc gives the position of the refresher and of the cleaner in their loops,
\* got the refresher's batch and the response it holds, flight the state of
\* the shared context (cancelled or not), of the refresher's ticker and of
\* the oracle connection c.relay; last names the latest step of a worker.

\* the batch size that makes the refresher flush (1000 in the code)
MaxPubkeysToRank == 2
\* the clock of this specification stops here
MaxShutdownTime == 24
ShutdownTickSteps == {StaleThreshold}

Cleaner == "cleaner"
Workers == {Refresher, Cleaner}
NoWork == [op |-> "none", cancelled |-> FALSE, key |-> "", dropped |-> FALSE]

ShutdownInit ==
    /\ now = 0
    /\ cfg = DefaultCfg
    /\ buckets = EmptyMap
    /\ cleanerNext = CleanupInterval
    /\ ranks = EmptyMap
    /\ lastClean = 0
    /\ refresh = <<>>
    /\ last = NoWork
    /\ calls = NoCalls
    /\ handled = 0
    /\ pc = [w \in Workers |-> "select"]
    /\ flight = [cancelled |-> FALSE, tickPending |-> FALSE, connected |-> FALSE]
    /\ flightCalls = <<>>
    /\ got = [batch |-> <<>>, seen |-> {}, response |-> NoOutcome]
    /\ roundTrips = 0

ShutdownUnchanged == UNCHANGED <<cfg, calls, handled, flightCalls, roundTrips>>

\* the step op of a worker, and whether the context was cancelled before it
Work(op) == [op |-> op, cancelled |-> flight.cancelled, key |-> "", dropped |-> FALSE]

\* an admission, also one still handled while the relay shuts down: Rank
\* enqueues the pubkey on a miss or a stale hit, and the event takes a token
\* of the score-0 bucket; last' tells whether Rank tried to enqueue and the
\* queue had no room
ShutdownAdmission(pubkey) ==
    /\ refresh' = RankQueue(ranks, refresh, pubkey, now)
    /\ buckets' = Consume(buckets, pubkey, TokenUnit,
                          PubCapacity(0, cfg), PubRefillRate(0, cfg), now)
    /\ last' = [Work("Rank") EXCEPT
                    !.key = pubkey,
                    !.dropped = /\ \/ pubkey \notin DOMAIN ranks
                                   \/ now - ranks[pubkey].Timestamp > StaleThreshold
                                /\ ~(Len(refresh) < RefreshQueueCap)]
    /\ UNCHANGED <<now, cleanerNext, ranks, lastClean, pc, flight, got>>
    /\ ShutdownUnchanged

\* signal.NotifyContext: the shared context is cancelled
Cancel ==
    /\ ~flight.cancelled
    /\ flight' = [flight EXCEPT !.cancelled = TRUE]
    /\ last' = Work("cancel")
    /\ UNCHANGED <<now, buckets, cleanerNext, ranks, lastClean, refresh, pc, got>>
    /\ ShutdownUnchanged

\* a refresher that finds no pubkey in its seen map
NeverSeen(seen, pubkey) == FALSE

\* refresher: _, exists := seen[pubkey]
Seen(seen, pubkey) == pubkey \in seen

\* refresher, case pubkey := <-c.refresh: skip a pubkey already in the batch,
\* else add it, and flush a full batch
RefresherDequeue ==
    /\ pc[Refresher] = "select"
    /\ refresh # <<>>
    /\ refresh' = Tail(refresh)
    /\ LET pubkey == Head(refresh)
           exists == Seen(got.seen, pubkey)
           batch == IF exists THEN got.batch ELSE Append(got.batch, pubkey)
       IN  /\ got' = [got EXCEPT !.batch = batch,
                                 !.seen = IF exists THEN @ ELSE @ \cup {pubkey}]
           /\ IF ~exists /\ Len(batch) >= MaxPubkeysToRank
              THEN /\ pc' = [pc EXCEPT ![Refresher] = "flushing"]
                   /\ last' = Work("flush")
              ELSE /\ UNCHANGED pc
                   /\ last' = Work("dequeue")
    /\ UNCHANGED <<now, buckets, cleanerNext, ranks, lastClean, flight>>
    /\ ShutdownUnchanged

\* a refresher whose ticker case resets the ticker and flushes nothing
RefresherTickerIdle ==
    /\ pc[Refresher] = "select"
    /\ flight.tickPending
    /\ flight' = [flight EXCEPT !.tickPending = FALSE]
    /\ last' = Work("tick")
    /\ UNCHANGED <<now, buckets, cleanerNext, ranks, lastClean, refresh, got, pc>>
    /\ ShutdownUnchanged

\* refresher, case <-ticker.C: flush a batch that is not empty
RefresherTicker ==
    /\ pc[Refresher] = "select"
    /\ flight.tickPending
    /\ flight' = [flight EXCEPT !.tickPending = FALSE]
    /\ IF Len(got.batch) > 0
       THEN /\ pc' = [pc EXCEPT ![Refresher] = "flushing"]
            /\ last' = Work("flush")
       ELSE /\ UNCHANGED pc
            /\ last' = Work("tick")
    /\ UNCHANGED <<now, buckets, cleanerNext, ranks, lastClean, refresh, got>>
    /\ ShutdownUnchanged

\* refreshBatch, the round-trip: under a context that is not cancelled the
\* oracle's response arrives over a relay that is now connected
RoundTripResponds(o) ==
    /\ pc[Refresher] = "flushing"
    /\ ~flight.cancelled
    /\ o.ok
    /\ pc' = [pc EXCEPT ![Refresher] = "responded"]
    /\ got' = [got EXCEPT !.response = o]
    /\ flight' = [flight EXCEPT !.connected = TRUE]
    /\ last' = Work("response")
    /\ UNCHANGED <<now, buckets, cleanerNext, ranks, lastClean, refresh>>
    /\ ShutdownUnchanged

\* refreshBatch, the round-trip fails (no connection, publish error with
\* dropRelay, no response, a bad response, or the context is done): the
\* refresher logs the error and resets the batch
RoundTripFails(relay) ==
    /\ pc[Refresher] = "flushing"
    /\ relay \in {"none", "kept", "dropped"}
    /\ relay = "none" => ~flight.connected
    /\ relay = "kept" /\ ~flight.connected => ~flight.cancelled
    /\ flight' = [flight EXCEPT !.connected = CASE relay = "none" -> FALSE
                                                [] relay = "kept" -> TRUE
                                                [] relay = "dropped" -> FALSE]
    /\ pc' = [pc EXCEPT ![Refresher] = "select"]
    /\ got' = [batch |-> <<>>, seen |-> {}, response |-> NoOutcome]
    /\ last' = Work("failed")
    /\ UNCHANGED <<now, buckets, cleanerNext, ranks, lastClean, refresh>>
    /\ ShutdownUnchanged

\* refreshBatch, after the response: updateAndClean, then resetBatch
RefresherWrite ==
    /\ pc[Refresher] = "responded"
    /\ ranks' = updateAndClean(ranks, lastClean, got.response.ts, got.response.entries, now)
    /\ lastClean' = updateAndCleanLastClean(lastClean, now)
    /\ pc' = [pc EXCEPT ![Refresher] = "select"]
    /\ got' = [batch |-> <<>>, seen |-> {}, response |-> NoOutcome]
    /\ last' = Work("write")
    /\ UNCHANGED <<now, buckets, cleanerNext, refresh, flight>>
    /\ ShutdownUnchanged

\* refresher, case <-ctx.Done(): return
RefresherStop ==
    /\ pc[Refresher] = "select"
    /\ flight.cancelled
    /\ pc' = [pc EXCEPT ![Refresher] = "stopped"]
    /\ last' = Work("refresher stopped")
    /\ UNCHANGED <<now, buckets, cleanerNext, ranks, lastClean, refresh, flight, got>>
    /\ ShutdownUnchanged

\* a cleaner that has no case <-ctx.Done()
CleanerNeverStops == FALSE /\ UNCHANGED vars

\* cleaner, case <-timer.C: l.Clean()
CleanerClean ==
    /\ pc[Cleaner] = "select"
    /\ now >= cleanerNext
    /\ buckets' = Clean(buckets, now)
    /\ cleanerNext' = now + CleanupInterval
    /\ last' = Work("Clean")
    /\ UNCHANGED <<now, ranks, lastClean, refresh, pc, flight, got>>
    /\ ShutdownUnchanged

\* cleaner, case <-ctx.Done(): return
CleanerStop ==
    /\ pc[Cleaner] = "select"
    /\ flight.cancelled
    /\ pc' = [pc EXCEPT ![Cleaner] = "stopped"]
    /\ last' = Work("cleaner stopped")
    /\ UNCHANGED <<now, buckets, cleanerNext, ranks, lastClean, refresh, flight, got>>
    /\ ShutdownUnchanged

\* time passes while the relay runs (a shutdown takes no time on this
\* clock): one period of the refresher's ticker, whose channel holds one
\* tick; the clock stops counting at MaxShutdownTime
ShutdownTick(d) ==
    /\ ~flight.cancelled
    /\ now' = IF now + d <= MaxShutdownTime THEN now + d ELSE now
    /\ flight' = [flight EXCEPT !.tickPending = TRUE]
    /\ UNCHANGED <<buckets, cleanerNext, ranks, lastClean, refresh, last, pc, got>>
    /\ ShutdownUnchanged

\* the oracle's responses to a batch: a trust score for its first pubkey
ShutdownOutcomes(batch, t) ==
    IF batch = <<>> THEN {}
    ELSE {o \in BatchOutcomes(t, {<<[Pubkey |-> Head(batch), Rank |-> 3]>>}) : o.ok /\ o.ts = t}

\* the steps refreshBatch takes by itself once it has started
RefreshBatchReturns ==
    \/ \E relay \in {"none", "kept", "dropped"} : RoundTripFails(relay)
    \/ RefresherWrite

ShutdownNext ==
    \/ \E pubkey \in Pubkeys : ShutdownAdmission(pubkey)
    \/ Cancel
    \/ RefresherDequeue
    \/ RefresherTicker
    \/ \E o \in ShutdownOutcomes(got.batch, now) : RoundTripResponds(o)
    \/ RefreshBatchReturns
    \/ RefresherStop
    \/ CleanerClean
    \/ CleanerStop
    \/ \E d \in ShutdownTickSteps : ShutdownTick(d)

\* a round-trip returns by its deadline, and a select whose ctx.Done() case
\* is ready again and again takes it in the end (the choice among the ready
\* cases is uniformly random)
SpecShutdown ==
    /\ ShutdownInit
    /\ [][ShutdownNext]_vars
    /\ WF_vars(RefreshBatchReturns)
    /\ SF_vars(RefresherStop)
    /\ SF_vars(CleanerStop)

ShutdownTicks == \E d \in ShutdownTickSteps : ShutdownTick(d)

\* the same, where moreover time passes while the relay runs and a ticker
\* case that stays ready is taken in the end
SpecRefresher ==
    /\ SpecShutdown
    /\ WF_vars(ShutdownTicks)
    /\ WF_vars(RefresherTicker)

\* ------------------------------------ specification: URL detection
\*
\* A content is a sequence of one-character strings. got holds the content
\* under test as its parts, last the result of ContainsURL on it.

Letters ==
    {"a", "b", "c", "d", "e", "f", "g", "h", "i", "j", "k", "l", "m",
     "n", "o", "p", "q", "r", "s", "t", "u", "v", "w", "x", "y", "z"}
DigitVal ==
    [c \in {"0", "1", "2", "3", "4", "5", "6", "7", "8", "9"} |->
        CASE c = "0" -> 0 [] c = "1" -> 1 [] c = "2" -> 2 [] c = "3" -> 3
          [] c = "4" -> 4 [] c = "5" -> 5 [] c = "6" -> 6 [] c = "7" -> 7
          [] c = "8" -> 8 [] c = "9" -> 9]
Digits == DOMAIN DigitVal
\* \s
Spaces == {" "}
\* [a-z0-9-] of the bare-domain branch
LabelChars == Letters \cup Digits \cup {"-"}
\* the cutset of strings.Trim (its double quote and backquote occur in no
\* content here)
TrimCutset == {"(", ")", "[", "]", "{", "}", "<", ">", ",", ".", "'"}

isDomainChar(b) == b \in Letters \cup Digits \cup {"-", "_"}

\* the first index from p on whose character is not in set, Len(s) + 1 if none
RunEnd(s, p, set) ==
    LET stops == {i \in p..Len(s) : s[i] \notin set}
    IN  IF stops = {} THEN Len(s) + 1
        ELSE CHOOSE i \in stops : \A j \in stops : i <= j

NonSpaceEnd(s, p) ==
    LET stops == {i \in p..Len(s) : s[i] \in Spaces}
    IN  IF stops = {} THEN Len(s) + 1
        ELSE CHOOSE i \in stops : \A j \in stops : i <= j

HasPrefixAt(s, p, lit) ==
    /\ p + Len(lit) - 1 <= Len(s)
    /\ SubSeq(s, p, p + Len(lit) - 1) = lit

IndexSet(s, set) == {i \in 1..Len(s) : s[i] \in set}
First(is) == CHOOSE i \in is : \A j \in is : i <= j
Latest(is) == CHOOSE i \in is : \A j \in is : i >= j

HttpLit == <<"h", "t", "t", "p", ":", "/", "/">>
HttpsLit == <<"h", "t", "t", "p", "s", ":", "/", "/">>
WwwLit == <<"w", "w", "w", ".">>

\* (?:https?://|www\.)[^\s]+ matched at p: the index after the match, 0
\* when it does not match
SchemeMatchEnd(s, p) ==
    LET n == CASE HasPrefixAt(s, p, HttpsLit) -> Len(HttpsLit)
               [] HasPrefixAt(s, p, HttpLit) -> Len(HttpLit)
               [] HasPrefixAt(s, p, WwwLit) -> Len(WwwLit)
               [] OTHER -> 0
    IN  IF n > 0 /\ p + n <= Len(s) /\ s[p + n] \notin Spaces
        THEN NonSpaceEnd(s, p + n)
        ELSE 0

\* (?:[a-z0-9-]+\.)+[a-z]{2,} matched at p, as many labels as can be
RECURSIVE DomainEnd(_, _)
DomainEnd(s, p) ==
    LET e == RunEnd(s, p, LabelChars)
    IN  IF e > p /\ e <= Len(s) /\ s[e] = "."
        THEN LET more == DomainEnd(s, e + 1)
                 t == RunEnd(s, e + 1, Letters)
             IN  IF more # 0 THEN more
                 ELSE IF t - (e + 1) >= 2 THEN t ELSE 0
        ELSE 0

\* the bare-domain branch with its optional (?:/[^\s]*)
DomainMatchEnd(s, p) ==
    LET d == DomainEnd(s, p)
    IN  IF d # 0 /\ d <= Len(s) /\ s[d] = "/" THEN NonSpaceEnd(s, d + 1) ELSE d

\* urlCandidateRegex at p: the first alternative that matches
MatchEndAt(s, p) ==
    IF SchemeMatchEnd(s, p) # 0 THEN SchemeMatchEnd(s, p) ELSE DomainMatchEnd(s, p)

\* urlCandidateRegex.FindStringIndex(content[off:]): the leftmost match, as
\* <<first index, index after the last>>, or <<>>
FindStringIndex(s, off) ==
    LET starts == {p \in off..Len(s) : MatchEndAt(s, p) # 0}
    IN  IF starts = {} THEN <<>>
        ELSE <<First(starts), MatchEndAt(s, First(starts))>>

\* strings.Trim(s, cutset)
Trim(s) ==
    LET keep == {i \in 1..Len(s) : s[i] \notin TrimCutset}
    IN  IF keep = {} THEN <<>> ELSE SubSeq(s, First(keep), Latest(keep))

\* net.SplitHostPort, hosts without brackets: host and whether it succeeded
SplitHostPort(s) ==
    LET colons == IndexSet(s, {":"})
    IN  IF Cardinality(colons) = 1
        THEN [ok |-> TRUE, host |-> SubSeq(s, 1, First(colons) - 1)]
        ELSE [ok |-> FALSE, host |-> s]

\* the dotted-decimal fields of an IPv4 address, <<>> when host is none
RECURSIVE ParseIPv4(_, _)
ParseIPv4(host, p) ==
    LET e == RunEnd(host, p, Digits)
        n == e - p
        field == IF n = 1 THEN DigitVal[host[p]]
                 ELSE IF n = 2 THEN 10 * DigitVal[host[p]] + DigitVal[host[p + 1]]
                 ELSE 100 * DigitVal[host[p]] + 10 * DigitVal[host[p + 1]] + DigitVal[host[p + 2]]
    IN  IF n < 1 \/ n > 3 THEN <<>>
        ELSE IF n > 1 /\ host[p] = "0" THEN <<>>
        ELSE IF field > 255 THEN <<>>
        ELSE IF e > Len(host) THEN <<field>>
        ELSE IF host[e] # "." THEN <<>>
        ELSE LET rest == ParseIPv4(host, e + 1)
             IN  IF rest = <<>> THEN <<>> ELSE <<field>> \o rest

\* net.ParseIP on the hosts of this specification (no IPv6 literal)
ParseIP(host) ==
    LET ip == ParseIPv4(host, 1) IN IF Len(ip) = 4 THEN ip ELSE <<>>

\* ip.IsLoopback() || ip.IsPrivate() || ip.IsLinkLocalUnicast() ||
\* ip.IsLinkLocalMulticast() || ip.IsUnspecified()
BlockedIP(ip) ==
    \/ ip[1] = 127
    \/ ip[1] = 10
    \/ ip[1] = 172 /\ ip[2] >= 16 /\ ip[2] <= 31
    \/ ip[1] = 192 /\ ip[2] = 168
    \/ ip[1] = 169 /\ ip[2] = 254
    \/ ip[1] = 224 /\ ip[2] = 0 /\ ip[3] = 0
    \/ ip = <<0, 0, 0, 0>>

HasSuffix(s, lit) ==
    Len(s) >= Len(lit) /\ SubSeq(s, Len(s) - Len(lit) + 1, Len(s)) = lit

isAllowedURLCandidate(candidate) ==
    LET s1 == IF HasPrefixAt(candidate, 1, HttpLit)
              THEN SubSeq(candidate, Len(HttpLit) + 1, Len(candidate))
              ELSE IF HasPrefixAt(candidate, 1, HttpsLit)
                   THEN SubSeq(candidate, Len(HttpsLit) + 1, Len(candidate))
                   ELSE candidate
        cuts == IndexSet(s1, {"/", "?", "#"})
        s2 == IF cuts # {} THEN SubSeq(s1, 1, First(cuts) - 1) ELSE s1
        ats == IndexSet(s2, {"@"})
        s3 == IF ats # {} THEN SubSeq(s2, Latest(ats) + 1, Len(s2)) ELSE s2
        colons == IndexSet(s3, {":"})
        port == SubSeq(s3, Latest(colons) + 1, Len(s3))
        host == IF SplitHostPort(s3).ok THEN SplitHostPort(s3).host
                ELSE IF colons # {} /\ port # <<>> /\ IndexSet(port, Digits) = DOMAIN port
                     THEN SubSeq(s3, 1, Latest(colons) - 1)
                     ELSE s3
    IN  IF host = <<>> THEN FALSE
        ELSE IF host = <<"l", "o", "c", "a", "l", "h", "o", "s", "t">> THEN FALSE
        ELSE IF HasSuffix(host, <<".", "l", "o", "c", "a", "l">>) THEN FALSE
        ELSE IF ParseIP(host) # <<>> THEN ~BlockedIP(ParseIP(host))
        ELSE IndexSet(host, {"."}) # {}

\* the loop of ContainsURL from offset off (an index of content)
RECURSIVE ContainsURLFrom(_, _)
ContainsURLFrom(content, off) ==
    IF off > Len(content) THEN FALSE
    ELSE LET loc == FindStringIndex(content, off)
         IN  IF loc = <<>> THEN FALSE
             ELSE LET start == loc[1]
                      end == loc[2]
                      candidate == Trim(SubSeq(content, start, end - 1))
                  IN  IF start > 1 /\ (content[start - 1] = "@" \/ isDomainChar(content[start - 1]))
                      THEN ContainsURLFrom(content, end)
                      ELSE IF candidate = <<>>
                      THEN ContainsURLFrom(content, end)
                      ELSE IF IndexSet(candidate, {"_"}) # {}
                      THEN ContainsURLFrom(content, end)
                      ELSE IF isAllowedURLCandidate(candidate) THEN TRUE
                      ELSE ContainsURLFrom(content, end)

ContainsURL(content) == ContainsURLFrom(content, 1)

\* the parts of the contents under test: what precedes the URL, its scheme
\* (none for a bare domain), its host, the rest of the URL, what follows
URLLeads == {<<>>, <<"g", "o", " ">>, <<"(">>, <<"@">>, <<"a">>, <<"_">>}
URLSchemes == {HttpLit, HttpsLit, WwwLit, <<>>}
DomainHosts ==
    {<<"e", "x", ".", "c", "o">>, <<"a", "-", "1", ".", "e", "x", ".", "c", "o">>,
     <<"l", "o", "c", "a", "l", "h", "o", "s", "t">>,
     <<"p", "c", ".", "l", "o", "c", "a", "l">>}
IPHosts ==
    {<<"8", ".", "8", ".", "8", ".", "8">>, <<"1", "2", "7", ".", "0", ".", "0", ".", "1">>,
     <<"1", "0", ".", "0", ".", "0", ".", "1">>, <<"1", "9", "2", ".", "1", "6", "8", ".", "1", ".", "1">>}
URLHosts == DomainHosts \cup IPHosts
URLTails ==
    {<<>>, <<"/", "p">>, <<"/", "a", "_", "b">>, <<":", "8", "0">>,
     <<":", "8", "0", "/", "p">>, <<":", "8", "a">>, <<"?", "q", "=", "1">>,
     <<"?", "q", "=", "a", "_", "b">>, <<"#", "f">>, <<"/", "@", "u">>,
     <<"/", "p", ".">>, <<")">>}
URLTrails == {<<>>, <<" ", "o", "k">>}
URLInputs ==
    [lead : URLLeads, scheme : URLSchemes, host : URLHosts, tail : URLTails,
     trail : URLTrails]

Content(in) == in.lead \o in.scheme \o in.host \o in.tail \o in.trail
NoURL == [op |-> "none", content |-> <<>>, result |-> FALSE]

URLInit ==
    /\ now = 0
    /\ cfg = DefaultCfg
    /\ buckets = EmptyMap
    /\ cleanerNext = CleanupInterval
    /\ ranks = EmptyMap
    /\ lastClean = 0
    /\ refresh = <<>>
    /\ last = NoURL
    /\ calls = NoCalls
    /\ handled = 0
    /\ pc = <<>>
    /\ flight = EmptyMap
    /\ flightCalls = <<>>
    /\ got \in URLInputs
    /\ roundTrips = 0

\* handleEvent calls ContainsURL(e.Content)
URLApply ==
    /\ last' = [op |-> "ContainsURL", content |-> Content(got),
                result |-> ContainsURL(Content(got))]
    /\ UNCHANGED <<now, cfg, buckets, cleanerNext, ranks, lastClean, refresh,
                   calls, handled, flightVars>>

URLNext == URLApply

SpecURL == URLInit /\ [][URLNext]_vars

\* ------------------ specification: the limiter beside one that never evicts
\*
\* buckets is the limiter's map, got the map of a limiter that receives the
\* same Consume calls and has no cleaner, last the latest Consume call
\* with what it found and returned, handled the number of Consume calls.

\* the clock of this specification stops here
MaxEvictTime == 25
\* Consume calls per behaviour
MaxConsumes == 3
EvictTickSteps == {1, 23}

\* the Consume calls of the pipeline, as <<id, capacity, refillRate>>: the
\* bucket of a pubkey of score 0 (capacity floored to one token) or of
\* score MidThreshold, and the rank-queue bucket of an IP group
EvictCalls ==
    {<<"a", p[1], p[2]>> : p \in LimiterParams}
    \cup {<<RankQueueKey(g), IPCapacity(DefaultCfg), IPRefillRate(DefaultCfg)>> : g \in IPGroups}

NoConsume ==
    [op |-> "none", id |-> "", cost |-> 0, capacity |-> 0, refillRate |-> 0,
     created |-> FALSE, changed |-> FALSE, oldTokens |-> 0, elapsed |-> 0,
     tested |-> 0, ok |-> FALSE, okNoEviction |-> FALSE]

EvictInit ==
    /\ now = 0
    /\ cfg = DefaultCfg
    /\ buckets = EmptyMap
    /\ cleanerNext = CleanupInterval
    /\ ranks = EmptyMap
    /\ lastClean = 0
    /\ refresh = <<>>
    /\ last = NoConsume
    /\ calls = NoCalls
    /\ handled = 0
    /\ pc = <<>>
    /\ flight = EmptyMap
    /\ flightCalls = <<>>
    /\ got = EmptyMap
    /\ roundTrips = 0

\* a caller runs Limiter.Consume(id, cost, capacity, refillRate): last' holds
\* the bucket's tokens before the call (capacity for a bucket created by it),
\* the time since its lastActive, the tokens tested against cost and the
\* value returned
EConsume(id, cost, capacity, refillRate) ==
    /\ handled < MaxConsumes
    /\ handled' = handled + 1
    /\ buckets' = Consume(buckets, id, cost, capacity, refillRate, now)
    /\ got' = Consume(got, id, cost, capacity, refillRate, now)
    /\ LET b == getOrCreateBucket(buckets, id, capacity, refillRate, now)[id]
       IN  last' = [op |-> "Consume", id |-> id, cost |-> cost,
                    capacity |-> capacity, refillRate |-> refillRate,
                    created |-> id \notin DOMAIN buckets,
                    changed |-> b.capacity # capacity \/ b.refillRate # refillRate,
                    oldTokens |-> b.tokens, elapsed |-> now - b.lastActive,
                    tested |-> Refilled(buckets, id, capacity, refillRate, now).tokens,
                    ok |-> ConsumeOk(buckets, id, cost, capacity, refillRate, now),
                    okNoEviction |-> ConsumeOk(got, id, cost, capacity, refillRate, now)]
    /\ UNCHANGED <<now, cfg, cleanerNext, ranks, lastClean, refresh, calls, pc, flight, flightCalls, roundTrips>>

\* Limiter.cleaner: the ticker fires every CleanupInterval and runs Clean
EClean ==
    /\ now >= cleanerNext
    /\ buckets' = Clean(buckets, now)
    /\ cleanerNext' = cleanerNext + CleanupInterval
    /\ last' = [NoConsume EXCEPT !.op = "Clean"]
    /\ UNCHANGED <<now, cfg, ranks, lastClean, refresh, calls, handled, flightVars>>

\* time passes
ETick(d) ==
    /\ now + d <= MaxEvictTime
    /\ now' = now + d
    /\ UNCHANGED <<cfg, buckets, cleanerNext, ranks, lastClean, refresh, last,
                   calls, handled, flightVars>>

EvictNext ==
    \/ \E c \in EvictCalls : EConsume(c[1], TokenUnit, c[2], c[3])
    \/ EClean
    \/ \E d \in EvictTickSteps : ETick(d)

SpecEvict == EvictInit /\ [][EvictNext]_vars

\* --------------- specification: concurrent first Consume calls of one key
\*
\* The callers run Consume(CreateKey, 1, capacity, refillRate) together, with
\* the parameters held in last. Here buckets is the map l.buckets of
\* pointers, flight the Bucket objects by pointer, handled the number of
\* buckets inserted, pc the position of each caller and got the pointer it
\* holds, whether it found the key present under the write lock, and what
\* its Consume returned.

NCreators == 3
Creators == 1..NCreators
CreateKey == "a"
NilBucket == 0

CreateInit ==
    /\ now = 0
    /\ cfg = DefaultCfg
    /\ buckets = EmptyMap
    /\ cleanerNext = CleanupInterval
    /\ ranks = EmptyMap
    /\ lastClean = 0
    /\ refresh = <<>>
    /\ last \in [capacity : {p[1] : p \in LimiterParams}, refillRate : {p[2] : p \in LimiterParams}]
    /\ <<last.capacity, last.refillRate>> \in LimiterParams
    /\ calls = NoCalls
    /\ handled = 0
    /\ pc = [c \in Creators |-> "RLock"]
    /\ flight = EmptyMap
    /\ flightCalls = <<>>
    /\ got = [c \in Creators |-> [b |-> NilBucket, raced |-> FALSE, done |-> FALSE, ok |-> FALSE]]
    /\ roundTrips = 0

CreateUnchanged ==
    UNCHANGED <<now, cfg, cleanerNext, ranks, lastClean, refresh, last, calls,
                flightCalls, roundTrips>>

\* a getOrCreateBucket without the second look under the write lock
NoDoubleCheck(bs, id) == FALSE

\* getOrCreateBucket under l.mu.Lock(): b, exists = l.buckets[id]
DoubleCheck(bs, id) == id \in DOMAIN bs

\* getOrCreateBucket, the look under l.mu.RLock(): return the bucket found,
\* or go on to the write lock
GCRLock(c) ==
    /\ pc[c] = "RLock"
    /\ IF CreateKey \in DOMAIN buckets
       THEN /\ got' = [got EXCEPT ![c].b = buckets[CreateKey]]
            /\ pc' = [pc EXCEPT ![c] = "b.mu"]
       ELSE /\ pc' = [pc EXCEPT ![c] = "Lock"]
            /\ UNCHANGED got
    /\ UNCHANGED <<buckets, flight, handled>>
    /\ CreateUnchanged

\* getOrCreateBucket under l.mu.Lock(): look again, insert a full bucket if
\* the key is still absent, return the bucket of the map
GCLock(c) ==
    /\ pc[c] = "Lock"
    /\ IF DoubleCheck(buckets, CreateKey)
       THEN /\ got' = [got EXCEPT ![c].b = buckets[CreateKey], ![c].raced = TRUE]
            /\ UNCHANGED <<buckets, flight, handled>>
       ELSE LET b == Cardinality(DOMAIN flight) + 1
            IN  /\ flight' = getOrCreateBucket(flight, b, last.capacity, last.refillRate, now)
                /\ buckets' = Put(buckets, CreateKey, b)
                /\ handled' = handled + 1
                /\ got' = [got EXCEPT ![c].b = b]
    /\ pc' = [pc EXCEPT ![c] = "b.mu"]
    /\ CreateUnchanged

\* Consume under b.mu.Lock(): overwrite the parameters, refill, test, subtract
CreateConsume(c) ==
    /\ pc[c] = "b.mu"
    /\ flight' = Consume(flight, got[c].b, TokenUnit, last.capacity, last.refillRate, now)
    /\ got' = [got EXCEPT ![c].done = TRUE,
                          ![c].ok = ConsumeOk(flight, got[c].b, TokenUnit,
                                              last.capacity, last.refillRate, now)]
    /\ pc' = [pc EXCEPT ![c] = "done"]
    /\ UNCHANGED <<buckets, handled>>
    /\ CreateUnchanged

CreateNext ==
    \E c \in Creators : GCRLock(c) \/ GCLock(c) \/ CreateConsume(c)

SpecCreate == CreateInit /\ [][CreateNext]_vars

\* ------------------- specification: the cached connection to the oracle
\*
\* Two round-trips (one of the refresher, one of an admission's fetch) run
\* contextVMResponse again and again. flight holds c.relay, a pointer or
\* NilRelay, and the connections ever opened, each "live" (IsConnected),
\* "dead" (broken, not closed by the cache) or "closed"; got holds the handle
\* a round-trip received from getRelay, last the latest call on the cache.

\* connections opened per behaviour
MaxConns == 3
NilRelay == 0
RoundTrippers == {Refresher, "adm1"}

NoRelayCall == [op |-> "none", proc |-> "", relay |-> NilRelay, ok |-> FALSE]

RelayInit ==
    /\ now = 0
    /\ cfg = DefaultCfg
    /\ buckets = EmptyMap
    /\ cleanerNext = CleanupInterval
    /\ ranks = EmptyMap
    /\ lastClean = 0
    /\ refresh = <<>>
    /\ last = NoRelayCall
    /\ calls = NoCalls
    /\ handled = 0
    /\ pc = [p \in RoundTrippers |-> "idle"]
    /\ flight = [relay |-> NilRelay, conns |-> EmptyMap]
    /\ flightCalls = <<>>
    /\ got = [p \in RoundTrippers |-> NilRelay]
    /\ roundTrips = 0

RelayUnchanged ==
    UNCHANGED <<now, cfg, buckets, cleanerNext, ranks, lastClean, refresh, calls,
                flightCalls, roundTrips>>

\* c.relay != nil && c.relay.IsConnected()
Connected(f) == f.relay # NilRelay /\ f.conns[f.relay] = "live"

\* relay.Close()
CloseRelay(f) ==
    IF f.relay # NilRelay
    THEN [f EXCEPT !.conns = Put(f.conns, f.relay, "closed")]
    ELSE f

\* getRelay under relayMu: the cache after the call; connect tells whether
\* nostr.RelayConnect succeeds
getRelay(f, connect) ==
    IF Connected(f) THEN f
    ELSE LET g == CloseRelay(f)
             new == Cardinality(DOMAIN f.conns) + 1
         IN  IF connect
             THEN [relay |-> new, conns |-> Put(g.conns, new, "live")]
             ELSE g

\* getRelay: the handle returned, NilRelay with an error
getRelayValue(f, connect) ==
    IF Connected(f) \/ connect THEN getRelay(f, connect).relay ELSE NilRelay

\* a dropRelay that closes the connection and keeps the handle
dropRelayKeepsHandle(f) == CloseRelay(f)

\* dropRelay under relayMu
dropRelay(f) == [CloseRelay(f) EXCEPT !.relay = NilRelay]

\* contextVMResponse: relay, err := c.getRelay(ctx)
RelayAcquire(p, connect) ==
    /\ pc[p] = "idle"
    /\ connect => handled < MaxConns
    /\ flight' = getRelay(flight, connect)
    /\ handled' = IF flight'.conns # flight.conns /\ connect THEN handled + 1 ELSE handled
    /\ got' = [got EXCEPT ![p] = getRelayValue(flight, connect)]
    /\ pc' = [pc EXCEPT ![p] = IF getRelayValue(flight, connect) = NilRelay
                               THEN "idle" ELSE "Publish"]
    /\ last' = [op |-> "getRelay", proc |-> p,
                relay |-> getRelayValue(flight, connect),
                ok |-> getRelayValue(flight, connect) # NilRelay]
    /\ RelayUnchanged

\* relay.Publish succeeds on a live connection; QuerySync follows and the
\* round-trip returns
RelayPublish(p) ==
    /\ pc[p] = "Publish"
    /\ flight.conns[got[p]] = "live"
    /\ pc' = [pc EXCEPT ![p] = "idle"]
    /\ got' = [got EXCEPT ![p] = NilRelay]
    /\ last' = [op |-> "Publish", proc |-> p, relay |-> got[p], ok |-> TRUE]
    /\ UNCHANGED <<flight, handled>>
    /\ RelayUnchanged

\* relay.Publish returns an error (the connection broke or was closed, or
\* the deadline passed)
RelayPublishFails(p) ==
    /\ pc[p] = "Publish"
    /\ pc' = [pc EXCEPT ![p] = "dropRelay"]
    /\ last' = [op |-> "Publish", proc |-> p, relay |-> got[p], ok |-> FALSE]
    /\ UNCHANGED <<flight, got, handled>>
    /\ RelayUnchanged

\* contextVMResponse after a publish error: c.dropRelay()
RelayDrop(p) ==
    /\ pc[p] = "dropRelay"
    /\ flight' = dropRelay(flight)
    /\ pc' = [pc EXCEPT ![p] = "idle"]
    /\ got' = [got EXCEPT ![p] = NilRelay]
    /\ last' = [op |-> "dropRelay", proc |-> p, relay |-> got[p], ok |-> TRUE]
    /\ UNCHANGED handled
    /\ RelayUnchanged

\* the network breaks a live connection
RelayBreaks(r) ==
    /\ r \in DOMAIN flight.conns
    /\ flight.conns[r] = "live"
    /\ flight' = [flight EXCEPT !.conns = Put(flight.conns, r, "dead")]
    /\ UNCHANGED <<pc, got, last, handled>>
    /\ RelayUnchanged

RelayNext ==
    \/ \E p \in RoundTrippers, connect \in BOOLEAN : RelayAcquire(p, connect)
    \/ \E p \in RoundTrippers : RelayPublish(p) \/ RelayPublishFails(p) \/ RelayDrop(p)
    \/ \E r \in 1..MaxConns : RelayBreaks(r)

SpecRelay == RelayInit /\ [][RelayNext]_vars

\* ------------------------ specification: the limiter's locks, step by step
\*
\* Two callers of Consume, one of GetTokens and the cleaner's Clean run
\* together. buckets is the map l.buckets of pointers and flight the Bucket
\* objects by pointer, as above; flightCalls holds the locks: the writer and
\* the readers of l.mu and the holder of each b.mu; pc is the position of
\* each goroutine inside its call, got the key and the pointer it works with,
\* and the buckets Clean has still to visit; roundTrips counts the calls
\* started. The run starts after one Consume("a", 1, ...) has been served at
\* time 0.

\* calls the goroutines make, all together
MaxLockCalls == 3
\* the clock's last value
MaxLockTime == 2
LockTickSteps == {2}
LockIds == {"a", "b"}
Consumers == {"c1", "c2"}
Reader == "r1"
LockProcs == Consumers \cup {Reader, Cleaner}
NoHolder == ""
\* the parameters every Consume call passes: those of the score MidThreshold
LockCapacity == PubCapacity(5, DefaultCfg)
LockRefillRate == PubRefillRate(5, DefaultCfg)

NoLockCall == [op |-> "none", proc |-> "", id |-> "", b |-> NilBucket, ok |-> FALSE]

LockInit ==
    /\ now = 0
    /\ cfg = DefaultCfg
    /\ buckets = Put(EmptyMap, "a", 1)
    /\ cleanerNext = CleanupInterval
    /\ ranks = EmptyMap
    /\ lastClean = 0
    /\ refresh = <<>>
    /\ last = NoLockCall
    /\ calls = NoCalls
    /\ handled = 1
    /\ pc = [p \in LockProcs |-> "idle"]
    /\ flight = Consume(EmptyMap, 1, TokenUnit, LockCapacity, LockRefillRate, 0)
    /\ flightCalls = [writer |-> NoHolder, readers |-> {}, held |-> Put(EmptyMap, 1, NoHolder)]
    /\ got = [p \in LockProcs |->
                [id |-> "", b |-> NilBucket, ok |-> FALSE, todo |-> {}]]
    /\ roundTrips = 0

LockUnchanged ==
    UNCHANGED <<cfg, cleanerNext, ranks, lastClean, refresh, calls>>

\* l.mu.RLock() can return: no writer holds the lock
CanRLock(m) == m.writer = NoHolder
\* l.mu.Lock() can return: nobody holds the lock
CanLock(m) == m.writer = NoHolder /\ m.readers = {}
\* b.mu.Lock() can return
CanLockBucket(m, b) == m.held[b] = NoHolder

\* a return that leaves b.mu locked
UnlockBucketForgotten(m, b) == m

\* b.mu.Unlock()
UnlockBucket(m, b) == [m EXCEPT !.held = Put(m.held, b, NoHolder)]

\* a goroutine calls Consume(id, 1, capacity, refillRate), GetTokens(id) or
\* Clean()
LockCall(p, id) ==
    /\ pc[p] = "idle"
    /\ roundTrips < MaxLockCalls
    /\ roundTrips' = roundTrips + 1
    /\ p = Cleaner => id = "a"
    /\ got' = [got EXCEPT ![p] = [id |-> IF p = Cleaner THEN "" ELSE id, b |-> NilBucket,
                                  ok |-> FALSE, todo |-> {}]]
    /\ pc' = [pc EXCEPT ![p] = IF p = Cleaner THEN "Lock" ELSE "RLock"]
    /\ UNCHANGED <<now, buckets, flight, flightCalls, last, handled>>
    /\ LockUnchanged

\* getOrCreateBucket and GetTokens: l.mu.RLock()
LockRLock(p) ==
    /\ pc[p] = "RLock"
    /\ CanRLock(flightCalls)
    /\ flightCalls' = [flightCalls EXCEPT !.readers = @ \cup {p}]
    /\ pc' = [pc EXCEPT ![p] = "RUnlock"]
    /\ UNCHANGED <<now, buckets, flight, got, last, handled, roundTrips>>
    /\ LockUnchanged

\* b, exists := l.buckets[id]; l.mu.RUnlock(); a Consume that found nothing
\* goes on to the write lock, a GetTokens that found nothing returns 0
LockRUnlock(p) ==
    /\ pc[p] = "RUnlock"
    /\ flightCalls' = [flightCalls EXCEPT !.readers = @ \ {p}]
    /\ IF got[p].id \in DOMAIN buckets
       THEN /\ got' = [got EXCEPT ![p].b = buckets[got[p].id]]
            /\ pc' = [pc EXCEPT ![p] = "b.mu"]
            /\ UNCHANGED last
       ELSE IF p \in Consumers
       THEN /\ pc' = [pc EXCEPT ![p] = "Lock"]
            /\ UNCHANGED <<got, last>>
       ELSE /\ pc' = [pc EXCEPT ![p] = "idle"]
            /\ last' = [op |-> "GetTokens", proc |-> p, id |-> got[p].id,
                        b |-> NilBucket, ok |-> FALSE]
            /\ UNCHANGED got
    /\ UNCHANGED <<now, buckets, flight, handled, roundTrips>>
    /\ LockUnchanged

\* getOrCreateBucket and Clean: l.mu.Lock()
LockLock(p) ==
    /\ pc[p] = "Lock"
    /\ CanLock(flightCalls)
    /\ flightCalls' = [flightCalls EXCEPT !.writer = p]
    /\ pc' = [pc EXCEPT ![p] = IF p = Cleaner THEN "range" ELSE "insert"]
    /\ got' = [got EXCEPT ![p].todo = IF p = Cleaner THEN DOMAIN buckets ELSE {}]
    /\ UNCHANGED <<now, buckets, flight, last, handled, roundTrips>>
    /\ LockUnchanged

\* getOrCreateBucket under the write lock: look again, insert a full bucket
\* if the key is still absent, unlock and return the bucket of the map
LockInsert(p) ==
    /\ pc[p] = "insert"
    /\ IF DoubleCheck(buckets, got[p].id)
       THEN /\ got' = [got EXCEPT ![p].b = buckets[got[p].id]]
            /\ flightCalls' = [flightCalls EXCEPT !.writer = NoHolder]
            /\ UNCHANGED <<buckets, flight, handled>>
       ELSE LET b == Cardinality(DOMAIN flight) + 1
            IN  /\ flight' = getOrCreateBucket(flight, b, LockCapacity, LockRefillRate, now)
                /\ buckets' = Put(buckets, got[p].id, b)
                /\ handled' = handled + 1
                /\ got' = [got EXCEPT ![p].b = b]
                /\ flightCalls' = [flightCalls EXCEPT !.writer = NoHolder,
                                                      !.held = Put(@, b, NoHolder)]
    /\ pc' = [pc EXCEPT ![p] = "b.mu"]
    /\ UNCHANGED <<now, last, roundTrips>>
    /\ LockUnchanged

\* Consume, GetTokens and Clean: b.mu.Lock() on the bucket in hand
LockBucket(p) ==
    /\ pc[p] = "b.mu"
    /\ CanLockBucket(flightCalls, got[p].b)
    /\ flightCalls' = [flightCalls EXCEPT !.held = Put(@, got[p].b, p)]
    /\ pc' = [pc EXCEPT ![p] = CASE p \in Consumers -> "consume"
                                 [] p = Reader -> "tokens"
                                 [] OTHER -> "age"]
    /\ UNCHANGED <<now, buckets, flight, got, last, handled, roundTrips>>
    /\ LockUnchanged

\* Consume under b.mu: overwrite the parameters, refill, test, subtract,
\* unlock and return
LockConsume(p) ==
    /\ pc[p] = "consume"
    /\ flight' = Consume(flight, got[p].b, TokenUnit, LockCapacity, LockRefillRate, now)
    /\ flightCalls' = UnlockBucket(flightCalls, got[p].b)
    /\ got' = [got EXCEPT ![p].ok = ConsumeOk(flight, got[p].b, TokenUnit,
                                              LockCapacity, LockRefillRate, now)]
    /\ last' = [op |-> "Consume", proc |-> p, id |-> got[p].id, b |-> got[p].b,
                ok |-> got'[p].ok]
    /\ pc' = [pc EXCEPT ![p] = "idle"]
    /\ UNCHANGED <<now, buckets, handled, roundTrips>>
    /\ LockUnchanged

\* GetTokens under b.mu: refill, unlock and return the tokens
LockTokens(p) ==
    /\ pc[p] = "tokens"
    /\ flight' = GetTokens(flight, got[p].b, now)
    /\ flightCalls' = UnlockBucket(flightCalls, got[p].b)
    /\ last' = [op |-> "GetTokens", proc |-> p, id |-> got[p].id, b |-> got[p].b,
                ok |-> TRUE]
    /\ pc' = [pc EXCEPT ![p] = "idle"]
    /\ UNCHANGED <<now, buckets, got, handled, roundTrips>>
    /\ LockUnchanged

\* Clean's loop: the next bucket of the map, or l.mu.Unlock() and return
LockRange(p) ==
    /\ pc[p] = "range"
    /\ IF got[p].todo = {}
       THEN /\ flightCalls' = [flightCalls EXCEPT !.writer = NoHolder]
            /\ pc' = [pc EXCEPT ![p] = "idle"]
            /\ last' = [op |-> "Clean", proc |-> p, id |-> "", b |-> NilBucket, ok |-> TRUE]
            /\ UNCHANGED got
       ELSE /\ \E id \in got[p].todo :
                got' = [got EXCEPT ![p].id = id, ![p].b = buckets[id],
                                   ![p].todo = @ \ {id}]
            /\ pc' = [pc EXCEPT ![p] = "b.mu"]
            /\ UNCHANGED <<flightCalls, last>>
    /\ UNCHANGED <<now, buckets, flight, handled, roundTrips>>
    /\ LockUnchanged

\* Clean under b.mu: read the age, unlock, delete the bucket when it is old
LockAge(p) ==
    /\ pc[p] = "age"
    /\ flightCalls' = UnlockBucket(flightCalls, got[p].b)
    /\ buckets' = IF now - flight[got[p].b].lastActive > TimeToLive
                  THEN Restrict(buckets, DOMAIN buckets \ {got[p].id})
                  ELSE buckets
    /\ pc' = [pc EXCEPT ![p] = "range"]
    /\ UNCHANGED <<now, flight, got, last, handled, roundTrips>>
    /\ LockUnchanged

\* time passes
LockTick(d) ==
    /\ now + d <= MaxLockTime
    /\ now' = now + d
    /\ UNCHANGED <<buckets, flight, flightCalls, pc, got, last, handled, roundTrips>>
    /\ LockUnchanged

\* the steps a goroutine takes inside a call
LockSteps(p) ==
    \/ LockRLock(p)
    \/ LockRUnlock(p)
    \/ LockLock(p)
    \/ LockInsert(p)
    \/ LockBucket(p)
    \/ LockConsume(p)
    \/ LockTokens(p)
    \/ LockRange(p)
    \/ LockAge(p)

LockNext ==
    \/ \E p \in LockProcs, id \in LockIds : LockCall(p, id)
    \/ \E p \in LockProcs : LockSteps(p)
    \/ \E d \in LockTickSteps : LockTick(d)

\* the scheduler runs every goroutine that can take a step
SpecLocks ==
    LockInit /\ [][LockNext]_vars /\ \A p \in LockProcs : WF_vars(LockSteps(p))

\* C1: for every limiter id whose Consume calls always passed the same
\* capacity C and refill rate R, any run of granted consume(cost=1) calls
\* between two instants t0 <= t1 numbers at most C + R * (t1 - t0), also when
\* the cleaner ran in between and the bucket was created again.
C1_GrantsWithinRate ==
    \A id \in BucketIds :
        Cardinality(calls[id].params) = 1 =>
            LET p == CHOOSE q \in calls[id].params : TRUE
                g == calls[id].grants
            IN  \A i, j \in 1..Len(g) :
                    i <= j => (j - i + 1) * TokenUnit <= p[1] + p[2] * (g[j] - g[i])

\* C2: every bucket of the limiter holds 0 <= tokens <= capacity in every
\* reachable state, whatever parameters the Consume calls passed and also
\* when calls follow each other at the same instant.
C2_TokensWithinCapacity ==
    \A id \in DOMAIN buckets :
        /\ 0 <= buckets[id].tokens
        /\ buckets[id].tokens <= buckets[id].capacity

\* C3: when N callers run GetRank for the same key, absent from the cache, at
\* the same time, exactly one oracle round-trip is issued for the key and all
\* callers return the same score or the same error, in every interleaving.
C3_OneRoundTripSameOutcome ==
    (\A c \in Callers : got[c].done /\ got[c].overlapped) =>
        /\ roundTrips = 1
        /\ \A c, d \in Callers : got[c].value = got[d].value /\ got[c].err = got[d].err

\* ------------------------------------------- claims about handleEvent

\* the step is a whole handleEvent call; last' then describes that call
Handling == handled' = handled + 1

\* the tokens a Consume call finds in the bucket of id in the current state:
\* a new bucket starts full, an old one has refilled since it was last active
Offered(id, capacity, refillRate) ==
    IF id \in DOMAIN buckets
    THEN Min(capacity, buckets[id].tokens + (now - buckets[id].lastActive) * refillRate)
    ELSE capacity

\* the bucket of id is the same before and after the step, or absent in both
BucketUntouched(id) ==
    /\ (id \in DOMAIN buckets') = (id \in DOMAIN buckets)
    /\ id \in DOMAIN buckets => buckets'[id] = buckets[id]

\* the call described by x passed the kind gate, the URL gate and the
\* timestamp check
PassedKindGate(x) == ~(x.rank < cfg.MidThreshold /\ x.event.Kind # 1)
PassedURLGate(x) ==
    ~(cfg.URLPolicyEnabled /\ x.rank < cfg.MidThreshold /\ x.event.Kind = 1 /\ x.event.HasURL)
PassedTimestamp(x) == ~TimestampGate(x.event, x.at)
\* handleEvent's backfill rule let the call described by x through
PassedAsBackfill(x) == BackfillFree(x.event, x.rank, x.at)
\* the call described by x is one the backfill exemption is meant for: a
\* score >= HighThreshold and an event dated more than 24h before the call
QualifiedBackfill(x) ==
    /\ cfg.HighThreshold # Nil
    /\ x.rank >= cfg.HighThreshold
    /\ x.at - x.event.CreatedAt > backfillAgeThreshold
\* the step took exactly one token from the bucket of the event's pubkey
TookOneToken(x) ==
    /\ x.event.PubKey \in DOMAIN buckets'
    /\ buckets'[x.event.PubKey].tokens =
          Offered(x.event.PubKey, PubCapacity(x.rank, cfg), PubRefillRate(x.rank, cfg))
          - TokenUnit

C5_KindGateBeforeBuckets ==
    [][(/\ Handling
        /\ last'.event.PubKey \in DOMAIN ranks
        /\ ranks[last'.event.PubKey].Rank < cfg.MidThreshold
        /\ last'.event.Kind # 1) =>
            /\ last'.result = "KindNotAllowed"
            /\ buckets' = buckets
            /\ calls' = calls
            /\ last'.storeCalls = 0]_vars

\* C5 witness: a kind-3 event of a cached pubkey with a score in (0, Mid) was
\* rejected while the limiter held buckets
C5_Rejected ==
    /\ last.result = "KindNotAllowed"
    /\ last.found
    /\ last.rank > 0
    /\ last.rank < cfg.MidThreshold
    /\ DOMAIN buckets # {}

\* C6: with HighThreshold configured, a score >= HighThreshold and an event
\* more than 24h in the past, the event is handed to the store without a
\* consume and the pubkey's bucket is unchanged; in every other case an event
\* is handed to the store only after a granted consume on the pubkey's bucket.
C6_BackfillExemption ==
    [][Handling =>
        /\ (PassedKindGate(last') /\ PassedURLGate(last') /\ QualifiedBackfill(last')) =>
              /\ last'.storeCalls = 1
              /\ ~last'.pubAsked
              /\ BucketUntouched(last'.event.PubKey)
              /\ calls'[last'.event.PubKey] = calls[last'.event.PubKey]
        /\ (last'.storeCalls = 1 /\ ~QualifiedBackfill(last')) =>
              /\ last'.consumed
              /\ TookOneToken(last')
              /\ calls'[last'.event.PubKey].grants =
                    Append(calls[last'.event.PubKey].grants, now)]_vars

\* C7: an event that passed the kind gate and the URL gate is rejected with
\* InvalidTimestamp exactly when CreatedAt - now > 24h: an event 24h in the
\* future passes, and no event dated in the past is rejected for its timestamp.
C7_TimestampWindow ==
    [][(Handling /\ PassedKindGate(last') /\ PassedURLGate(last')) =>
        /\ last'.result = "InvalidTimestamp" <=>
              last'.event.CreatedAt - now > timestampSanityWindow
        /\ last'.event.CreatedAt - now = timestampSanityWindow =>
              last'.result # "InvalidTimestamp"
        /\ last'.event.CreatedAt <= now => last'.result # "InvalidTimestamp"]_vars

\* the number of granted consumes of id recorded at time t
GrantsAt(cs, id, t) ==
    Cardinality({i \in 1..Len(cs[id].grants) : cs[id].grants[i] = t})

C9_OracleFailureMeansScoreZero ==
    [][(Handling /\ last'.fetchErr) =>
        LET x == last'
            pubkey == x.event.PubKey
        IN  /\ x.fetched
            /\ pubkey \in DOMAIN ranks'
            /\ ranks'[pubkey] = [Rank |-> 0, Timestamp |-> now]
            /\ x.rank = 0
            /\ x.event.Kind # 1 <=> x.result = "KindNotAllowed"
            /\ (x.event.Kind = 1 /\ PassedURLGate(x) /\ PassedTimestamp(x)) =>
                  /\ x.pubAsked
                  /\ buckets'[pubkey].capacity = PubCapacity(0, cfg)
                  /\ pubkey \notin DOMAIN buckets => x.storeCalls = 1]_vars

\* C9 witness: the round-trip failed, the sentinel is cached and the event
\* was stored
C9_FailedAndStored ==
    /\ last.fetchErr
    /\ last.result = "Saved"
    /\ last.event.PubKey \in DOMAIN ranks
    /\ ranks[last.event.PubKey] = [Rank |-> 0, Timestamp |-> last.at]

\* ------------------------------------------- claims about the rank cache

\* C10: every entry of the rank cache has 0 <= score <= 1 in every reachable
\* state, whatever scores the oracle returns and whatever scores callers
\* pass to Update: Update and updateAndClean clamp before they write.
C10_ScoresInUnitInterval ==
    \A pubkey \in DOMAIN ranks :
        /\ 0 <= ranks[pubkey].Rank
        /\ ranks[pubkey].Rank <= ScoreScale

\* C10 witness: both ends of the clamp are in the cache, a score below 0
\* written as 0 and a score above 1 written as 1
C10_BothEndsClamped ==
    /\ DOMAIN ranks = Pubkeys
    /\ \E p, q \in Pubkeys : ranks[p].Rank = 0 /\ ranks[q].Rank = ScoreScale

\* a step of the cache specification that ran the operation op
CacheStep(op) == handled' = handled + 1 /\ last'.op = op

\* the refresh channel after one best-effort enqueue of k
EnqueuedOnce(q, k) == IF Len(q) < RefreshQueueCap THEN q \o <<k>> ELSE q

\* C11: peek(k) never modifies the cache (entries and lastClean stay as they
\* are). On a miss it returns (0, false) and makes one best-effort enqueue of
\* k; on a hit older than StaleThreshold it returns (score, true) and makes
\* one best-effort enqueue; on a hit not older than StaleThreshold, a zero
\* sentinel included, it returns (score, true) and enqueues nothing.
C11_PeekReadsOnly ==
    [][CacheStep("Rank") =>
        LET k == last'.key
            miss == k \notin DOMAIN ranks
            stale == ~miss /\ now - ranks[k].Timestamp > StaleThreshold
        IN  /\ ranks' = ranks
            /\ lastClean' = lastClean
            /\ miss => /\ last'.value = 0
                       /\ ~last'.found
                       /\ refresh' = EnqueuedOnce(refresh, k)
            /\ stale => /\ last'.value = ranks[k].Rank
                        /\ last'.found
                        /\ refresh' = EnqueuedOnce(refresh, k)
            /\ (~miss /\ ~stale) => /\ last'.value = ranks[k].Rank
                                    /\ last'.found
                                    /\ refresh' = refresh]_vars

\* C11 witness: a peek found a zero score written at this instant, and the
\* refresh channel is empty
C11_FreshSentinelPeeked ==
    /\ last.op = "Rank"
    /\ last.found
    /\ last.value = 0
    /\ ranks[last.key].Timestamp = now
    /\ refresh = <<>>

\* a score brought into [0,1]
Clamped(score) == Max(0, Min(ScoreScale, score))

\* the keys of a list of entries, and the score of the last occurrence of k
KeysOf(entries) == {entries[i].Pubkey : i \in 1..Len(entries)}
LastScore(entries, k) ==
    LET at == {i \in 1..Len(entries) : entries[i].Pubkey = k}
    IN  entries[CHOOSE i \in at : \A j \in at : j <= i].Rank

\* C12: after update(ts, entries), peek(k) returns (clamp(score_k), true) for
\* every k in entries, where score_k is the last occurrence of k in entries
\* and clamp maps values below 0 to 0 and above 1 to 1; entries of keys that
\* are not in the call stay as they were.
C12_UpdateThenPeek ==
    [][CacheStep("Update") =>
        LET entries == last'.entries
        IN  /\ \A k \in KeysOf(entries) :
                /\ RankFound(ranks', k)
                /\ RankValue(ranks', k) = Clamped(LastScore(entries, k))
            /\ \A k \in Pubkeys \ KeysOf(entries) :
                /\ (k \in DOMAIN ranks') = (k \in DOMAIN ranks)
                /\ k \in DOMAIN ranks => ranks'[k] = ranks[k]]_vars

\* C12 witness: an update named one key twice with scores on both sides of
\* the interval while another key was cached, and the cache holds the clamp
\* of the second score
C12_LastOccurrenceKept ==
    /\ last.op = "Update"
    /\ Len(last.entries) = 2
    /\ last.entries[1].Pubkey = last.entries[2].Pubkey
    /\ last.entries[1].Rank > ScoreScale
    /\ last.entries[2].Rank < 0
    /\ ranks[last.entries[1].Pubkey].Rank = 0
    /\ DOMAIN ranks = Pubkeys

\* C13: when the round-trip of fetch(k) succeeds, fetch returns the value the
\* response newly cached for k: the clamped score of the response when the
\* response contains k and 0 when it omits k, for a key that was absent and
\* for a key whose entry was stale alike.
C13_FetchReturnsNewlyCached ==
    [][(CacheStep("GetRank") /\ last'.roundTrip /\ ~last'.err) =>
        LET k == last'.key
            entries == last'.entries
        IN  /\ last'.value = IF k \in KeysOf(entries)
                             THEN Clamped(LastScore(entries, k))
                             ELSE 0
            /\ k \in DOMAIN ranks'
            /\ ranks'[k].Rank = last'.value]_vars

\* a fetch(k) made right after the step: a fresh hit needs no oracle, and any
\* other call makes a round-trip
FetchAgain(k) == GetRank(ranks', lastClean', k, now', NoOutcome)

\* a step in which fetch(k) missed the cache and returned without error
FetchedOnMiss == CacheStep("GetRank") /\ ~last'.found /\ ~last'.err

RanUpdateAndClean ==
    /\ handled' = handled + 1
    /\ last'.op \in {"refreshBatch", "GetRank"}
    /\ last'.roundTrip
    /\ last'.ok

\* C15: updateAndClean runs its eviction pass only when at least
\* MaxRefreshInterval/2 has passed since lastClean. A pass that completes at
\* time t sets lastClean = t and leaves no entry with a timestamp older than
\* t - MaxRefreshInterval in the cache, entries written by the same call
\* included; a call without a pass leaves lastClean alone and removes nothing.
C15_EvictionPass ==
    [][RanUpdateAndClean =>
        IF 2 * (now - lastClean) >= MaxRefreshInterval
        THEN /\ lastClean' = now
             /\ \A k \in DOMAIN ranks' :
                    ranks'[k].Timestamp >= now - MaxRefreshInterval
        ELSE /\ lastClean' = lastClean
             /\ DOMAIN ranks \subseteq DOMAIN ranks'
             /\ KeysOf(last'.entries) \subseteq DOMAIN ranks']_vars

\* C15 witness: a refreshBatch ran the pass exactly MaxRefreshInterval/2 after
\* the last one, and a score of its response, stamped more than
\* MaxRefreshInterval back, is not in the cache
C15_WrittenAndEvicted ==
    /\ last.op = "refreshBatch"
    /\ last.ok
    /\ lastClean = now
    /\ now = MaxRefreshInterval \div 2
    /\ now - last.ts > MaxRefreshInterval
    /\ \E k \in KeysOf(last.entries) : k \notin DOMAIN ranks

\* C16: once an eviction pass has run, no peek and no fetch returns an entry
\* whose timestamp is older than MaxRefreshInterval at the time of the read.
C16_NoOldEntryReturned ==
    [][(/\ lastClean > 0
        /\ \/ CacheStep("Rank") /\ last'.found
           \/ CacheStep("GetRank") /\ ~last'.err)
        => now - ranks'[last'.key].Timestamp <= MaxRefreshInterval]_vars

\* the pubkeys of a batch
BatchKeys(batch) == {batch[i] : i \in 1..Len(batch)}

\* C20: a refreshBatch call on a batch B is atomic with respect to the cache:
\* afterwards either every key of B has an entry written by this call, or no
\* cache entry was changed by it.
C20_BatchAtomic ==
    [][CacheStep("refreshBatch") =>
        \/ \A k \in BatchKeys(last'.batch) :
            /\ k \in KeysOf(last'.entries)
            /\ k \in DOMAIN ranks'
            /\ ranks'[k] = [Rank |-> Clamped(LastScore(last'.entries, k)),
                            Timestamp |-> last'.ts]
        \/ ranks' = ranks]_vars

\* fractions with positive denominators: a <= b, a < b, a = n
FracLeq(a, b) == a.num * b.den <= b.num * a.den
FracLess(a, b) == a.num * b.den < b.num * a.den
FracIs(a, n) == a.num = n * a.den

\* C17: for every valid configuration (0 <= M <= 1, H unset or M < H <= 1)
\* calculateDailyRate is monotone non-decreasing in r over [0,1], its value
\* lies in [1, 10000], and it follows the table: 1 for r <= 0,
\* 1 + (r/M)*99 for 0 < r < M, 100 + ((r-M)/(H-M))*4900 for M <= r < H with
\* H set, 10000 otherwise.
C17_RateTable ==
    last.op = "calculateDailyRate" =>
        LET r == last.r
            d == last.rate
            M == cfg.MidThreshold
            H == cfg.HighThreshold
        IN  /\ d.den > 0
            /\ d.den <= d.num
            /\ d.num <= 10000 * d.den
            /\ \A r2 \in RateScores :
                    r <= r2 => FracLeq(d, calculateDailyRate(r2, cfg))
            /\ r <= 0 => FracIs(d, 1)
            /\ (0 < r /\ r < M) => d.num * M = d.den * (M + 99 * r)
            /\ (0 < r /\ M <= r /\ H # Nil /\ r < H) =>
                    d.num * (H - M) = d.den * (100 * (H - M) + 4900 * (r - M))
            /\ (0 < r /\ M <= r /\ (H = Nil \/ H <= r)) => FracIs(d, 10000)

\* C17 witness: the rate of a score strictly between M and H, strictly
\* between 100 and 5000
C17_InsideTierC ==
    /\ last.op = "calculateDailyRate"
    /\ cfg.HighThreshold # Nil
    /\ cfg.MidThreshold < last.r
    /\ last.r < cfg.HighThreshold
    /\ FracLess([num |-> 100, den |-> 1], last.rate)
    /\ FracLess(last.rate, [num |-> 5000, den |-> 1])

\* the same configuration with scores counted in quarters of a tenth
Quarters(c) ==
    [c EXCEPT !.MidThreshold = 4 * @,
              !.HighThreshold = IF @ = Nil THEN Nil ELSE 4 * @]

\* the value the rate tends to as r approaches T from the side given (-1
\* from below, 1 from above): every tier is linear in r, so the limit is the
\* line through the rates a quarter and two quarters of a tenth away from T
LimitAt(T, side, c) ==
    LET a == calculateDailyRate(4 * T + side, Quarters(c))
        b == calculateDailyRate(4 * T + 2 * side, Quarters(c))
    IN  [num |-> 2 * a.num * b.den - b.num * a.den, den |-> a.den * b.den]

FracEq(a, b) == a.num * b.den = b.num * a.den

\* the rate is continuous at T within [0,1]
ContinuousAt(T, c) ==
    /\ T > 0 => FracEq(LimitAt(T, -1, c), calculateDailyRate(T, c))
    /\ T < ScoreScale => FracEq(LimitAt(T, 1, c), calculateDailyRate(T, c))

\* C18 as stated: for every valid configuration the rate is continuous at
\* r = M and at r = H, and is 1 at r = 0, 100 at r = M, 5000 at r = H and
\* 10000 for r >= H.
C18_ContinuousAtThresholds ==
    last.op = "calculateDailyRate" =>
        LET r == last.r
            d == last.rate
            M == cfg.MidThreshold
            H == cfg.HighThreshold
        IN  /\ r = 0 => FracIs(d, 1)
            /\ r = M => FracIs(d, 100) /\ ContinuousAt(M, cfg)
            /\ (H # Nil /\ r = H) => FracIs(d, 5000) /\ ContinuousAt(H, cfg)
            /\ (H # Nil /\ r >= H) => FracIs(d, 10000)

\* C18: for every valid configuration the rate is 1 at r = 0 and 10000 from
\* the top threshold T on (T = H, or M when H is unset; r > 0). With H set
\* and M > 0 the rate is 100 at r = M and continuous there. At T > 0 the rate
\* is not continuous: from below it tends to 5000 (to 100 when H is unset and
\* M > 0), and at T itself it is 10000.
C18_JumpAtTopThreshold ==
    last.op = "calculateDailyRate" =>
        LET r == last.r
            d == last.rate
            M == cfg.MidThreshold
            H == cfg.HighThreshold
            T == IF H = Nil THEN M ELSE H
        IN  /\ r = 0 => FracIs(d, 1)
            /\ (r > 0 /\ r >= T) => FracIs(d, 10000)
            /\ (H # Nil /\ M > 0 /\ r = M) =>
                    FracIs(d, 100) /\ ContinuousAt(M, cfg)
            /\ (r = T /\ T > 0) =>
                    /\ ~ContinuousAt(T, cfg)
                    /\ H # Nil => FracIs(LimitAt(T, -1, cfg), 5000)
                    /\ H = Nil => FracIs(LimitAt(T, -1, cfg), 100)

\* C18 witness: the rate at r = H is 10000 while the rates below H tend to
\* 5000, and the rate at M > 0 is 100
C18_AtHighThreshold ==
    /\ last.op = "calculateDailyRate"
    /\ cfg.HighThreshold # Nil
    /\ cfg.MidThreshold > 0
    /\ last.r = cfg.HighThreshold
    /\ FracIs(last.rate, 10000)
    /\ FracIs(LimitAt(cfg.HighThreshold, -1, cfg), 5000)
    /\ FracIs(calculateDailyRate(cfg.MidThreshold, cfg), 100)

\* the latest submission passed the rate limit and reached the store
Admitted == last.result \in {"Saved", "StoreError"}

C21_StoreFailureKeepsTokenSpent ==
    [][(Handling /\ last'.result = "StoreError") =>
        LET x == last'
            pubkey == x.event.PubKey
            key == RankQueueKey(x.ipGroup)
        IN  /\ x.storeCalls = 1
            /\ ~x.backfill => x.consumed /\ TookOneToken(x)
            /\ x.backfill => ~x.pubAsked /\ BucketUntouched(pubkey)
            /\ ~x.ipAsked => BucketUntouched(key)
            /\ \A id \in BucketIds \ {pubkey, key} : BucketUntouched(id)
            /\ ~x.fetched => ranks' = ranks /\ lastClean' = lastClean
            /\ \A k \in Pubkeys \ {pubkey} :
                /\ (k \in DOMAIN ranks') = (k \in DOMAIN ranks)
                /\ k \in DOMAIN ranks => ranks'[k] = ranks[k]]_vars

\* C21 witness: the save of an event failed after its token was taken from a
\* full bucket, and the bucket is one token short of its capacity while the
\* other pubkey has a bucket too
C21_FailedSaveTokenGone ==
    /\ last.result = "StoreError"
    /\ last.consumed
    /\ buckets[last.event.PubKey].tokens =
          buckets[last.event.PubKey].capacity - TokenUnit
    /\ Pubkeys \subseteq DOMAIN buckets

\* C22: the rank lookup never delays an admission by more than 2 seconds, in
\* every interleaving with other admissions and with the refresher: neither
\* while it waits on the single-flight call led by another admission nor
\* while it waits on the oracle-connection lock held by a round-trip that is
\* connecting.
C22_LookupWithinTwoSeconds ==
    \A p \in Admissions :
        /\ pc[p] \in {"lock", "connect", "roundtrip", "wait"} =>
                now - got[p].start <= LookupTimeout
        /\ pc[p] = "done" => got[p].end - got[p].start <= LookupTimeout

AllStopped == \A w \in Workers : pc[w] = "stopped"

\* C24 as stated: after the shared context is cancelled both workers
\* eventually terminate, from any state they are in, and perform no further
\* cache update, flush or eviction afterwards.
C24_NoWorkAfterCancel ==
    /\ flight.cancelled ~> AllStopped
    /\ [][flight.cancelled => last'.op \notin {"write", "flush", "Clean"} \/ last' = last]_vars

\* C24: after the shared context is cancelled both workers eventually
\* terminate, from any state they are in (idle, mid-batch, inside a
\* round-trip), and a terminated worker does nothing more: no cache update,
\* no flush, no eviction. Until its select takes the cancellation a worker
\* may still run a case that is ready and finish the call it is in.
C24_WorkersStop ==
    /\ flight.cancelled ~> AllStopped
    /\ [][pc[Refresher] = "stopped" =>
            /\ pc'[Refresher] = "stopped"
            /\ ranks' = ranks /\ lastClean' = lastClean /\ got' = got
            /\ last'.op \notin {"write", "flush", "dequeue", "tick", "response", "failed"}
               \/ last' = last]_vars
    /\ [][pc[Cleaner] = "stopped" =>
            /\ pc'[Cleaner] = "stopped"
            /\ DOMAIN buckets \subseteq DOMAIN buckets'
            /\ last'.op # "Clean" \/ last' = last]_vars

\* C24 witness: both workers have stopped, the refresher in the middle of a
\* batch, after a response that was in hand at cancellation was written
C24_StoppedMidBatch ==
    /\ flight.cancelled
    /\ AllStopped
    /\ got.batch # <<>>
    /\ ranks # EmptyMap

\* C25: once the context is cancelled and both workers have stopped, the
\* cached oracle connection has been closed: the cache holds no live
\* connection.
C25_ShutdownDropsRelay == flight.cancelled /\ AllStopped => ~flight.connected

\* ------------------------------------------ claims about URL detection

\* the hosts of the contents under test that are public domain names, and
\* the IP addresses among them that are public
PublicDomains ==
    {<<"e", "x", ".", "c", "o">>, <<"a", "-", "1", ".", "e", "x", ".", "c", "o">>}
PublicIPs == {<<"8", ".", "8", ".", "8", ".", "8">>}

\* the content under test holds a URL the policy is about: an http(s) URL of
\* a public host, or a www. URL or bare domain of a public domain name, not
\* preceded by '@' or a domain character
HoldsPublicURL ==
    /\ got.lead = <<>> \/ ~(got.lead[Len(got.lead)] = "@" \/ isDomainChar(got.lead[Len(got.lead)]))
    /\ \/ got.host \in PublicDomains
       \/ got.host \in PublicIPs /\ got.scheme \in {HttpLit, HttpsLit}

\* C26: ContainsURL returns true for every content that contains an http(s)
\* URL, a www. URL or a bare domain whose host is a public domain name and
\* that is not preceded by '@' or a domain character, whatever characters
\* its port, path and query contain.
C26_ContainsURLFindsPublicURL ==
    last.op = "ContainsURL" /\ HoldsPublicURL => last.result

\* ------------------------------------------- claims about the limiter

\* a step of Consume
ConsumeStep == handled' = handled + 1 /\ last'.op = "Consume"

\* what a Consume step does to the map given the tokens its refill left:
\* true iff these reach cost, cost subtracted on true, nothing on false,
\* lastActive = now, every other bucket untouched
ConsumeFrom(refilled) ==
    /\ last'.ok <=> refilled >= last'.cost
    /\ last'.id \in DOMAIN buckets'
    /\ buckets'[last'.id].tokens = IF last'.ok THEN refilled - last'.cost ELSE refilled
    /\ buckets'[last'.id].lastActive = now
    /\ DOMAIN buckets' = DOMAIN buckets \cup {last'.id}
    /\ \A id \in DOMAIN buckets \ {last'.id} : buckets'[id] = buckets[id]

C28_ChangedParamsClamp ==
    last.op = "Consume" /\ last.changed /\ last.elapsed >= 0 =>
        /\ last.tested = Min(last.capacity, last.oldTokens + last.elapsed * last.refillRate)
        /\ last.tested <= last.capacity

\* C30: the cleaner deletes exactly the buckets with now - lastActive >
\* TimeToLive, and the limiter admits the same consumes as one without
\* eviction: a bucket holds no more tokens than the bucket of the limiter
\* that never evicts holds at that time.
C30_EvictionIsSafe ==
    /\ [](last.op = "Consume" => (last.ok <=> last.okNoEviction))
    /\ [](\A id \in DOMAIN buckets :
            GetTokensValue(buckets, id, now) <= GetTokensValue(got, id, now))
    /\ [][last'.op = "Clean" /\ last' # last =>
            DOMAIN buckets' = {id \in DOMAIN buckets : ~(now - buckets[id].lastActive > TimeToLive)}]_vars

\* C29: under every interleaving of concurrent Consume calls for one absent
\* key exactly one bucket is inserted into the map, every caller operates on
\* that bucket, the bucket starts with tokens = capacity and lastActive =
\* now, and the first consumes of cost 1 succeed at most floor(capacity)
\* times.
C29_OneBucketForAll ==
    /\ handled <= 1
    /\ handled = Cardinality(DOMAIN flight)
    /\ \A c \in Creators :
          got[c].b # NilBucket =>
              /\ CreateKey \in DOMAIN buckets
              /\ got[c].b = buckets[CreateKey]
    /\ \A b \in DOMAIN flight :
          /\ flight[b].lastActive = now
          /\ flight[b].tokens + TokenUnit * Cardinality({c \in Creators : got[c].b = b /\ got[c].ok})
                = last.capacity
    /\ TokenUnit * Cardinality({c \in Creators : got[c].ok}) <= last.capacity
    /\ (\A c \in Creators : pc[c] = "done") => handled = 1

\* C29 witness: all callers are done, one of them found under the write lock
\* the bucket another had inserted meanwhile, and one was refused
C29_RacedAndRefused ==
    /\ \A c \in Creators : pc[c] = "done"
    /\ \E c \in Creators : got[c].raced
    /\ \E c \in Creators : ~got[c].ok

\* ------------------------------------------- claims about the refresher

\* steps of the refresher: it takes a pubkey off the queue, its ticker case
\* runs, a flush starts, a flush ends
DequeueStep == Len(refresh') < Len(refresh)
TickerStep == flight.tickPending /\ ~flight'.tickPending
FlushStarts == pc[Refresher] = "select" /\ pc'[Refresher] = "flushing"
FlushEnds == pc[Refresher] \in {"flushing", "responded"} /\ pc'[Refresher] = "select"

\* C31: at every point of the refresher loop the batch holds no key twice,
\* the seen set is the set of the keys of the batch and the batch is no
\* longer than MaxPubkeysToRank; a flush starts exactly when the batch
\* reaches MaxPubkeysToRank or the ticker fires with a batch that is not
\* empty; after every flush, successful or failed, batch and set are empty.
C31_BatchAndSeen ==
    /\ [](/\ \A i, j \in 1..Len(got.batch) : got.batch[i] = got.batch[j] => i = j
          /\ got.seen = {got.batch[i] : i \in 1..Len(got.batch)}
          /\ Len(got.batch) <= MaxPubkeysToRank
          /\ pc[Refresher] = "select" => Len(got.batch) < MaxPubkeysToRank)
    /\ [][FlushStarts <=>
            \/ DequeueStep /\ Len(got'.batch) >= MaxPubkeysToRank
            \/ TickerStep /\ got.batch # <<>>]_vars
    /\ [][FlushEnds => got'.batch = <<>> /\ got'.seen = {}]_vars

\* C31 witness: a flush of a full batch is under way while the queue holds a
\* key of that batch again
C31_FullBatchFlushing ==
    /\ pc[Refresher] = "flushing"
    /\ Len(got.batch) = MaxPubkeysToRank
    /\ refresh # <<>> /\ Head(refresh) \in got.seen

\* what the end of a flush does: after a response updateAndClean with the
\* timestamp of the response, after an error no cache update; the keys of
\* the batch are not put back on the queue
FlushOutcome ==
    /\ pc[Refresher] = "responded" =>
          /\ ranks' = updateAndClean(ranks, lastClean, got.response.ts,
                                     got.response.entries, now)
          /\ \A i \in 1..Len(got.response.entries) :
                ranks'[got.response.entries[i].Pubkey].Timestamp = got.response.ts
    /\ pc[Refresher] = "flushing" => ranks' = ranks /\ lastClean' = lastClean
    /\ refresh' = refresh

\* C32 as stated: every key the refresher takes off the queue is sent in one
\* batch round-trip, no later than the next tick or when the batch is full;
\* on success the cache is updated through updateAndClean with the
\* timestamp of the response, on error the batch is reset without a cache
\* update and its keys are not retried.
C32_EveryKeySent ==
    /\ \A k \in Pubkeys :
          k \in got.seen ~> k \notin got.seen
    /\ [][FlushEnds => FlushOutcome]_vars

\* C32: every key the refresher takes off the queue is sent in one batch
\* round-trip, at the next tick or when the batch is full, unless the
\* context is cancelled first: a refresher that stops drops its batch
\* unsent. On success the cache is updated through updateAndClean with the
\* timestamp of the response, on error the batch is reset without a cache
\* update and its keys are not retried.
C32_EveryKeySentUnlessCancelled ==
    /\ \A k \in Pubkeys :
          k \in got.seen ~> (k \notin got.seen \/ flight.cancelled)
    /\ [][pc[Refresher] = "flushing" /\ pc'[Refresher] # "flushing" =>
            pc'[Refresher] \in {"responded", "select"}]_vars
    /\ [][pc[Refresher] = "responded" /\ pc'[Refresher] # "responded" =>
            pc'[Refresher] = "select"]_vars
    /\ [][FlushEnds => FlushOutcome]_vars

\* C32 witness: a batch short of MaxPubkeysToRank, flushed by the ticker,
\* has been answered by the oracle
C32_TickerFlushAnswered ==
    /\ pc[Refresher] = "responded"
    /\ Len(got.batch) = 1
    /\ got.response.ok
    /\ ~flight.cancelled

\* an admission of k (a step of it that changes the state)
AdmissionStep(k) ==
    /\ last'.op = "Rank" /\ last'.key = k
    /\ last' # last \/ refresh' # refresh \/ buckets' # buckets

\* C33 as stated: the refresh queue never holds more than its capacity and
\* an enqueue never blocks: on a full queue tryEnqueue drops the key, so an
\* admission never waits on the queue, whatever the refresher does; a key
\* that was dropped is enqueued again by the next peek that misses it.
C33_DroppedKeyEnqueuedByNextMiss ==
    /\ [](Len(refresh) <= RefreshQueueCap)
    /\ [](\A k \in Pubkeys : ENABLED ShutdownAdmission(k))
    /\ [][\A k \in Pubkeys :
            AdmissionStep(k) /\ k \notin DOMAIN ranks /\
            last.op = "Rank" /\ last.key = k /\ last.dropped /\
            (\A i \in 1..Len(refresh) : refresh[i] # k) =>
                refresh' = Append(refresh, k)]_vars

\* C33: the refresh queue never holds more than its capacity and an enqueue
\* never blocks: an admission never waits on the queue, whatever the
\* refresher does (slow, in a flush, stopped); a peek that misses puts the
\* key on the queue when the queue has room and drops it when the queue is
\* full, also when the key was dropped before.
C33_EnqueueNeverBlocks ==
    /\ [](Len(refresh) <= RefreshQueueCap)
    /\ [](\A k \in Pubkeys : ENABLED ShutdownAdmission(k))
    /\ [][\A k \in Pubkeys :
            AdmissionStep(k) /\ k \notin DOMAIN ranks =>
                /\ refresh' = IF Len(refresh) < RefreshQueueCap
                              THEN Append(refresh, k) ELSE refresh
                /\ last'.dropped <=> Len(refresh) = RefreshQueueCap]_vars

\* C33 witness: a key was dropped on a full queue while the refresher has
\* stopped
C33_DroppedWhileStopped ==
    /\ last.op = "Rank" /\ last.dropped
    /\ Len(refresh) = RefreshQueueCap
    /\ pc[Refresher] = "stopped"

\* ----------------------------------- claims about the cache, continued

\* C34: the cache is last-writer-wins by timestamp: whatever the order of
\* the writes (Update, updateAndClean of a batch, a fetch result, a failure
\* sentinel), a write that carries an older timestamp never replaces an
\* entry with a newer timestamp, and a write to one key leaves the entries
\* of the other keys as they are.
C34_LatestTimestampWins ==
    [][\A k \in DOMAIN ranks \cap DOMAIN ranks' :
          /\ ranks'[k].Timestamp >= ranks[k].Timestamp
          /\ k \notin KeysOf(last'.entries) /\ k # last'.key => ranks'[k] = ranks[k]]_vars

\* ------------------------------ claims about the oracle's connection

\* the connections that are not closed
OpenConns(f) == {r \in DOMAIN f.conns : f.conns[r] # "closed"}

C38_DropsOnlyFailedConnection ==
    [][last'.op = "dropRelay" /\ last' # last =>
          /\ flight.relay \in {NilRelay, last'.relay}
          /\ \A r \in DOMAIN flight.conns \ {last'.relay} :
                flight'.conns[r] = flight.conns[r]]_vars

\* ------------------------------ claims about the IP group's limiter

\* C36: the IP group's limiter is asked only when a rank lookup is needed.
\* For an event whose pubkey has a cache entry, fresh or stale or a failure
\* sentinel, handleEvent neither consumes from nor creates the bucket
\* "rank-queue:" + ipGroup and makes no call on it, and the event is judged
\* with the cached score whatever that bucket holds.
C36_RankedKeySkipsIPLimiter ==
    [][(Handling /\ last'.event.PubKey \in DOMAIN ranks) =>
        LET x == last'
            key == RankQueueKey(x.ipGroup)
        IN  /\ x.found
            /\ ~x.ipAsked
            /\ ~x.fetched
            /\ BucketUntouched(key)
            /\ calls'[key] = calls[key]
            /\ x.rank = ranks[x.event.PubKey].Rank]_vars

\* C36 witness: the IP group's bucket is exhausted, and an event of a pubkey
\* with a positive cached score was stored without a call on that bucket
C36_SavedWhileIPGroupExhausted ==
    /\ last.found
    /\ ~last.ipAsked
    /\ last.result = "Saved"
    /\ last.rank > 0
    /\ RankQueueKey(last.ipGroup) \in DOMAIN buckets
    /\ Offered(RankQueueKey(last.ipGroup), IPCapacity(cfg), IPRefillRate(cfg)) < TokenUnit

\* ------------------------------ claims about the failure sentinel

\* C37: a failed fetch never replaces a score that a successful oracle
\* response has cached for the key: when the round-trip of a GetRank call
\* fails while the cache holds a positive score for the key, which only an
\* oracle response can have written, the cache is left as it is.
C37_FailedFetchKeepsCachedScore ==
    [][\A c \in Callers :
          (/\ flightCalls[c] = "running"
           /\ flightCalls'[c] = "error"
           /\ FlightKey \in DOMAIN ranks
           /\ ranks[FlightKey].Rank > 0) => ranks' = ranks]_vars

\* ------------------------------ claims about the limiter's locks

\* a Consume call of p returns true in this step
ConsumeReturnsTrue(p) == pc[p] = "consume" /\ pc'[p] = "idle" /\ got'[p].ok

\* C39: every successful Consume spends from the bucket the map holds for
\* its key: no Consume takes a token from a bucket that Clean has removed
\* from the map while another Consume of the same key has drawn from the
\* fresh bucket that replaced it.
C39_ConsumeSpendsFromMappedBucket ==
    [][\A p \in Consumers :
          ConsumeReturnsTrue(p) =>
              ~(/\ got[p].id \in DOMAIN buckets
                /\ buckets[got[p].id] # got[p].b
                /\ \E q \in Consumers \ {p} :
                      /\ got[q].id = got[p].id
                      /\ got[q].b = buckets[got[p].id]
                      /\ got[q].ok)]_vars

\* the goroutines that hold the mutex of some bucket
BucketHolders == {flightCalls.held[b] : b \in DOMAIN flightCalls.held} \ {NoHolder}

\* C40: the limiter is deadlock-free. A goroutine asks for l.mu only while
\* it holds no bucket's mutex and holds at most one bucket's mutex at a time,
\* so the locks are taken in the order l.mu, then b.mu; while some call is in
\* progress some goroutine can take a step; and every call of Consume,
\* GetTokens and Clean eventually returns.
C40_LimiterDeadlockFree ==
    /\ [](\A p \in LockProcs :
            /\ pc[p] \in {"RLock", "Lock"} => p \notin BucketHolders
            /\ Cardinality({b \in DOMAIN flightCalls.held : flightCalls.held[b] = p}) <= 1
            /\ (p \in BucketHolders /\ p # Cleaner) =>
                  flightCalls.writer # p /\ p \notin flightCalls.readers)
    /\ []((\E p \in LockProcs : pc[p] # "idle") =>
            \E p \in LockProcs : ENABLED LockSteps(p))
    /\ \A p \in LockProcs : (pc[p] # "idle") ~> (pc[p] = "idle")

\* C40 witness: Clean holds l.mu and waits for the mutex of a bucket that a
\* Consume holds, while the other Consume waits for l.mu
C40_CleanWaitsForConsume ==
    /\ flightCalls.writer = Cleaner
    /\ pc[Cleaner] = "b.mu"
    /\ flightCalls.held[got[Cleaner].b] \in Consumers
    /\ \E q \in Consumers : pc[q] = "Lock"

====
